---- MODULE Spec2Model ----
(***************************************************************************)
(* Model of the go-app-gen project generator (internal/generator):         *)
(* Generator.Generate builds the TemplateData, creates the project         *)
(* directory, walks the embedded template store (processTemplates) and     *)
(* then runs the external toolchain commands (PostProcess).                *)
(*                                                                         *)
(* Strings are TLA+ strings; the Go strings/filepath functions the code    *)
(* calls are operators over them, computed character by character.         *)
(***************************************************************************)
EXTENDS Integers, Sequences, FiniteSets, TLC

(***************************************************************************)
(* Go standard library: package strings                                    *)
(***************************************************************************)
HasPrefix(s, prefix) ==
    /\ Len(s) >= Len(prefix)
    /\ SubSeq(s, 1, Len(prefix)) = prefix

HasSuffix(s, suffix) ==
    /\ Len(s) >= Len(suffix)
    /\ SubSeq(s, Len(s) - Len(suffix) + 1, Len(s)) = suffix

TrimPrefix(s, prefix) ==
    IF HasPrefix(s, prefix) THEN SubSeq(s, Len(prefix) + 1, Len(s)) ELSE s

TrimSuffix(s, suffix) ==
    IF HasSuffix(s, suffix) THEN SubSeq(s, 1, Len(s) - Len(suffix)) ELSE s

\* strings.ReplaceAll(s, old, new) for a non-empty old: the non-overlapping
\* occurrences of old are replaced from left to right; the inserted text is
\* not scanned again.
RECURSIVE ReplaceAll(_, _, _)
ReplaceAll(s, old, new) ==
    IF Len(s) < Len(old) THEN s
    ELSE IF HasPrefix(s, old)
         THEN new \o ReplaceAll(SubSeq(s, Len(old) + 1, Len(s)), old, new)
         ELSE SubSeq(s, 1, 1) \o ReplaceAll(SubSeq(s, 2, Len(s)), old, new)

UpperLetters == "ABCDEFGHIJKLMNOPQRSTUVWXYZ"
LowerLetters == "abcdefghijklmnopqrstuvwxyz"

\* the position of the one-character string c in letters, 0 when absent
LetterIndex(c, letters) ==
    IF \E i \in 1..Len(letters) : SubSeq(letters, i, i) = c
    THEN CHOOSE i \in 1..Len(letters) : SubSeq(letters, i, i) = c
    ELSE 0

RECURSIVE ToLower(_)
ToLower(s) ==
    IF Len(s) = 0 THEN s
    ELSE LET c == SubSeq(s, 1, 1)
             i == LetterIndex(c, UpperLetters)
         IN  (IF i = 0 THEN c ELSE SubSeq(LowerLetters, i, i))
                 \o ToLower(SubSeq(s, 2, Len(s)))

RECURSIVE ToUpper(_)
ToUpper(s) ==
    IF Len(s) = 0 THEN s
    ELSE LET c == SubSeq(s, 1, 1)
             i == LetterIndex(c, LowerLetters)
         IN  (IF i = 0 THEN c ELSE SubSeq(UpperLetters, i, i))
                 \o ToUpper(SubSeq(s, 2, Len(s)))

(***************************************************************************)
(* Go standard library: package path/filepath (forward-slash separator)    *)
(***************************************************************************)
\* the path elements of s, split at "/" (empty elements included)
RECURSIVE SplitPath(_, _)
SplitPath(s, cur) ==
    IF Len(s) = 0 THEN <<cur>>
    ELSE IF SubSeq(s, 1, 1) = "/"
         THEN <<cur>> \o SplitPath(SubSeq(s, 2, Len(s)), "")
         ELSE SplitPath(SubSeq(s, 2, Len(s)), cur \o SubSeq(s, 1, 1))

\* filepath.Clean on the elements of a relative path: empty and "."
\* elements are dropped, ".." removes the element before it (and is kept
\* when there is none, or when that one is itself "..").
RECURSIVE CleanElems(_, _)
CleanElems(elems, acc) ==
    IF elems = << >> THEN acc
    ELSE LET e == Head(elems) IN
         IF e = "" \/ e = "." THEN CleanElems(Tail(elems), acc)
         ELSE IF e = ".." /\ acc # << >> /\ acc[Len(acc)] # ".."
              THEN CleanElems(Tail(elems), SubSeq(acc, 1, Len(acc) - 1))
              ELSE CleanElems(Tail(elems), Append(acc, e))

RECURSIVE JoinElems(_)
JoinElems(elems) ==
    IF elems = << >> THEN ""
    ELSE IF Len(elems) = 1 THEN elems[1]
         ELSE elems[1] \o "/" \o JoinElems(Tail(elems))

Clean(path) ==
    LET elems == CleanElems(SplitPath(path, ""), << >>)
    IN  IF elems = << >> THEN "." ELSE JoinElems(elems)

\* filepath.Join(a, b): empty elements are ignored, the rest is joined
\* with "/" and cleaned.
Join(a, b) ==
    IF a = "" /\ b = "" THEN ""
    ELSE IF a = "" THEN Clean(b)
    ELSE IF b = "" THEN Clean(a)
    ELSE Clean(a \o "/" \o b)

\* filepath.Dir of a cleaned relative path: all but the last element
Dir(path) ==
    LET elems == SplitPath(path, "")
    IN  IF Len(elems) <= 1 THEN "."
        ELSE Clean(JoinElems(SubSeq(elems, 1, Len(elems) - 1)))

\* the directory d itself and every ancestor of it, as os.MkdirAll visits
\* them
Ancestors(d) ==
    LET elems == SplitPath(d, "")
    IN  { JoinElems(SubSeq(elems, 1, k)) : k \in 1..Len(elems) }

(***************************************************************************)
(* Ordering of the embedded file system walk                               *)
(***************************************************************************)
\* the printable ASCII characters that occur in template paths, in byte
\* order
AsciiOrder ==
    " !#$%&'()*+,-./0123456789:;<=>?@ABCDEFGHIJKLMNOPQRSTUVWXYZ[]^_abcdefghijklmnopqrstuvwxyz{|}~"

\* byte-wise string comparison a < b, as Go compares file names
RECURSIVE StrLess(_, _)
StrLess(a, b) ==
    IF Len(b) = 0 THEN FALSE
    ELSE IF Len(a) = 0 THEN TRUE
    ELSE LET ca == LetterIndex(SubSeq(a, 1, 1), AsciiOrder)
             cb == LetterIndex(SubSeq(b, 1, 1), AsciiOrder)
         IN  IF ca # cb THEN ca < cb
             ELSE StrLess(SubSeq(a, 2, Len(a)), SubSeq(b, 2, Len(b)))

\* element-wise comparison of two paths: a directory comes before its
\* entries, the entries of one directory come in file-name order
RECURSIVE ElemsLess(_, _)
ElemsLess(a, b) ==
    IF b = << >> THEN FALSE
    ELSE IF a = << >> THEN TRUE
    ELSE IF Head(a) # Head(b) THEN StrLess(Head(a), Head(b))
    ELSE ElemsLess(Tail(a), Tail(b))

WalkLess(a, b) == ElemsLess(SplitPath(a, ""), SplitPath(b, ""))

\* a walk that visits the entries in descending order
RECURSIVE SortEntries_Desc(_)
SortEntries_Desc(S) ==
    IF S = {} THEN << >>
    ELSE LET m == CHOOSE e \in S :
                      \A o \in S \ {e} : WalkLess(o.path, e.path)
         IN  <<m>> \o SortEntries_Desc(S \ {m})

RECURSIVE SortEntries(_)
SortEntries(S) ==
    IF S = {} THEN << >>
    ELSE LET m == CHOOSE e \in S :
                      \A o \in S \ {e} : WalkLess(e.path, o.path)
         IN  <<m>> \o SortEntries(S \ {m})

\* fs.WalkDir(templatesFS, "templates", fn): the entries fn is called
\* with, in order, for an embedded file system holding the files fsFiles
\* (all below "templates/"): the root, then depth first, each directory
\* before its entries, the entries of a directory sorted by name.
WalkDir(fsFiles) ==
    LET dirsOf(f) == Ancestors(Dir(f))
        allDirs   == {"templates"} \cup UNION { dirsOf(f) : f \in fsFiles }
    IN  SortEntries({ [path |-> d, isDir |-> TRUE]  : d \in allDirs }
                    \cup { [path |-> f, isDir |-> FALSE] : f \in fsFiles })

(***************************************************************************)
(* Inputs                                                                  *)
(***************************************************************************)
\* ProjectConfig values the CLI may pass to Generate
ConfigPool ==
    << [AppName |-> "shop", ModuleName |-> "github.com/user/shop",
        Domain |-> "order", Description |-> "A order management API",
        Author |-> "Developer", Features |-> << >>],
       [AppName |-> "taskapp", ModuleName |-> "github.com/test/taskapp",
        Domain |-> "Person", Description |-> "contacts",
        Author |-> "Developer", Features |-> <<"auth">>],
       [AppName |-> "x", ModuleName |-> "m",
        Domain |-> "category", Description |-> "",
        Author |-> "", Features |-> <<"auth", "auth">>],
       [AppName |-> "lib.tmpl", ModuleName |-> "m",
        Domain |-> "BUS", Description |-> "d",
        Author |-> "a", Features |-> << >>] >>

\* how many entries of ConfigPool the model draws the configuration from
NumConfigs == 2

Configs == { ConfigPool[i] : i \in 1..NumConfigs }

\* template resources an embedded store may hold
TemplatePool ==
    { "templates/Makefile",
      "templates/cmd/{{.AppName}}/main.go.tmpl",
      "templates/internal/{{.Domain}}.go.tmpl",
      "templates/internal/{{.domain}}.go.tmpl",
      "templates/x",
      "templates/x.tmpl" }

\* the largest number of template resources in the embedded store
MaxTemplates == 3

\* the embedded stores: at least one resource ("templates/*" must match)
Stores ==
    { S \in SUBSET TemplatePool : Cardinality(S) \in 1..MaxTemplates }

OutputDir == "out"

(***************************************************************************)
(* Name derivation                                                         *)
(***************************************************************************)
\* strings.Title on a single word, which the earlier generator called: the
\* first letter is upper-cased and the rest is left as it is
titleCase_Title(s) ==
    IF Len(s) = 0 THEN s
    ELSE ToUpper(SubSeq(s, 1, 1)) \o SubSeq(s, 2, Len(s))

\* titleCase: strings.ToUpper(s[:1]) + strings.ToLower(s[1:])
titleCase(s) ==
    IF Len(s) = 0 THEN s
    ELSE ToUpper(SubSeq(s, 1, 1)) \o ToLower(SubSeq(s, 2, Len(s)))

IsUpperWord(s) == Len(s) > 0 /\ s = ToUpper(s) /\ s # ToLower(s)

\* the words inflection.Plural returns unchanged, and its irregular plurals
Uncountable ==
    {"equipment", "information", "rice", "money", "species", "series",
     "fish", "sheep", "jeans", "police"}

Irregular ==
    << <<"person", "people">>, <<"man", "men">>, <<"child", "children">>,
       <<"sex", "sexes">>, <<"move", "moves">> >>

Vowelish == {"a", "e", "i", "o", "u", "y"}

\* the suffix rules of inflection.Plural that apply to the words of the
\* model, most specific first (the library tries its rules last to first):
\* [suffix matched, characters cut, text appended]
PluralRules ==
    << [suffix |-> "quiz", cut |-> 0, add |-> "zes"],
       [suffix |-> "x",    cut |-> 0, add |-> "es"],
       [suffix |-> "ch",   cut |-> 0, add |-> "es"],
       [suffix |-> "ss",   cut |-> 0, add |-> "es"],
       [suffix |-> "sh",   cut |-> 0, add |-> "es"],
       [suffix |-> "quy",  cut |-> 1, add |-> "ies"],
       [suffix |-> "y",    cut |-> 1, add |-> "ies"],
       [suffix |-> "sis",  cut |-> 3, add |-> "ses"],
       [suffix |-> "bus",  cut |-> 0, add |-> "es"],
       [suffix |-> "alias", cut |-> 0, add |-> "es"],
       [suffix |-> "status", cut |-> 0, add |-> "es"],
       [suffix |-> "s",    cut |-> 1, add |-> "s"],
       [suffix |-> "",     cut |-> 0, add |-> "s"] >>

\* does rule r match the word w (given in lower case)
RuleMatches(r, w) ==
    /\ HasSuffix(w, r.suffix)
    /\ r.suffix = "y" =>
          /\ Len(w) >= 2
          /\ SubSeq(w, Len(w) - 1, Len(w) - 1) \notin Vowelish
    /\ r.suffix = "" =>
          /\ Len(w) >= 1
          /\ LetterIndex(SubSeq(w, Len(w), Len(w)), LowerLetters) # 0

\* pluralize, the hand-written pluralizer of the earlier generator, which
\* Generate called before it called inflection.Plural
pluralize(word) ==
    IF HasSuffix(word, "y") THEN TrimSuffix(word, "y") \o "ies"
    ELSE IF HasSuffix(word, "s") \/ HasSuffix(word, "sh") \/ HasSuffix(word, "ch")
         THEN word \o "es"
    ELSE word \o "s"

\* the plural the earlier generator derived
Plural_Heuristic(word) == pluralize(word)

\* inflection.Plural (github.com/jinzhu/inflection): uncountable words are
\* returned unchanged, irregular words map to their plural, otherwise the
\* first matching suffix rule rewrites the end of the word; a word no rule
\* matches (the empty word, a word ending in a non-letter) is returned
\* unchanged.  An upper-case word gets the upper-case replacement.
Plural(word) ==
    LET w     == ToLower(word)
        up(t) == IF IsUpperWord(word) THEN ToUpper(t) ELSE t
        irr   == { i \in 1..Len(Irregular) : Irregular[i][1] = w }
        hits  == { i \in 1..Len(PluralRules) : RuleMatches(PluralRules[i], w) }
    IN  IF w \in Uncountable THEN word
        ELSE IF irr # {}
             THEN LET i == CHOOSE j \in irr : TRUE
                  IN  IF word = w THEN Irregular[i][2]
                      ELSE IF IsUpperWord(word) THEN ToUpper(Irregular[i][2])
                      ELSE ToUpper(SubSeq(word, 1, 1))
                               \o SubSeq(Irregular[i][2], 2, Len(Irregular[i][2]))
        ELSE IF hits = {} THEN word
        ELSE LET r == PluralRules[CHOOSE i \in hits : \A j \in hits : i <= j]
             IN  SubSeq(word, 1, Len(word) - r.cut) \o up(r.add)

(***************************************************************************)
(* Generator.Generate: the TemplateData                                    *)
(***************************************************************************)
\* a TemplateData whose DomainPluralLower is derived from Domain, not from
\* its plural
TemplateData_StalePlural(config) ==
    [ AppName           |-> config.AppName,
      ModuleName        |-> config.ModuleName,
      Domain            |-> config.Domain,
      DomainTitle       |-> titleCase(config.Domain),
      DomainPlural      |-> Plural(config.Domain),
      DomainPluralLower |-> ToLower(config.Domain),
      DomainLower       |-> ToLower(config.Domain),
      Description       |-> config.Description,
      Author            |-> config.Author,
      PackageImportPath |-> config.ModuleName,
      GoVersion         |-> "1.23",
      Features          |-> config.Features ]

\* the TemplateData Generate builds from the configuration; the HasFeature
\* closure is represented by the Features it closes over
TemplateData(config) ==
    [ AppName           |-> config.AppName,
      ModuleName        |-> config.ModuleName,
      Domain            |-> config.Domain,
      DomainTitle       |-> titleCase(config.Domain),
      DomainPlural      |-> Plural(config.Domain),
      DomainPluralLower |-> ToLower(Plural(config.Domain)),
      DomainLower       |-> ToLower(config.Domain),
      Description       |-> config.Description,
      Author            |-> config.Author,
      PackageImportPath |-> config.ModuleName,
      GoVersion         |-> "1.23",
      Features          |-> config.Features ]

\* a closure that compares with strings.EqualFold
HasFeature_FoldCase(data, feature) ==
    \E i \in 1..Len(data.Features) :
        ToLower(data.Features[i]) = ToLower(feature)

\* the closure stored in TemplateData.HasFeature
HasFeature(data, feature) ==
    \E i \in 1..Len(data.Features) : data.Features[i] = feature

\* the zero value of ProjectConfig
ZeroConfig ==
    [ AppName |-> "", ModuleName |-> "", Domain |-> "", Description |-> "",
      Author |-> "", Features |-> << >> ]

\* the zero value of TemplateData (before Generate has built it)
ZeroData ==
    [ AppName |-> "", ModuleName |-> "", Domain |-> "", DomainTitle |-> "",
      DomainPlural |-> "", DomainPluralLower |-> "", DomainLower |-> "",
      Description |-> "", Author |-> "", PackageImportPath |-> "",
      GoVersion |-> "", Features |-> << >> ]

(***************************************************************************)
(* Generator.getOutputPath                                                 *)
(***************************************************************************)
\* getOutputPath without the removal of the ".tmpl" extension
getOutputPath_KeepSuffix(templatePath, data) ==
    LET p0 == TrimPrefix(templatePath, "templates/")
        p2 == ReplaceAll(p0, "{{.AppName}}", data.AppName)
        p3 == ReplaceAll(p2, "{{.Domain}}", data.Domain)
        p4 == ReplaceAll(p3, "{{.domain}}", data.DomainLower)
        p5 == ReplaceAll(p4, "{{.domain_plural}}", data.DomainPlural)
    IN  p5

\* getOutputPath without the removal of the "templates/" prefix
getOutputPath_KeepPrefix(templatePath, data) ==
    LET p0 == templatePath
        p1 == IF HasSuffix(p0, ".tmpl") THEN TrimSuffix(p0, ".tmpl") ELSE p0
        p2 == ReplaceAll(p1, "{{.AppName}}", data.AppName)
        p3 == ReplaceAll(p2, "{{.Domain}}", data.Domain)
        p4 == ReplaceAll(p3, "{{.domain}}", data.DomainLower)
        p5 == ReplaceAll(p4, "{{.domain_plural}}", data.DomainPlural)
    IN  p5

\* getOutputPath that substitutes the placeholders first and removes the
\* prefix and the extension afterwards
getOutputPath_SubstituteFirst(templatePath, data) ==
    LET p2 == ReplaceAll(templatePath, "{{.AppName}}", data.AppName)
        p3 == ReplaceAll(p2, "{{.Domain}}", data.Domain)
        p4 == ReplaceAll(p3, "{{.domain}}", data.DomainLower)
        p5 == ReplaceAll(p4, "{{.domain_plural}}", data.DomainPlural)
        p6 == TrimPrefix(p5, "templates/")
    IN  IF HasSuffix(p6, ".tmpl") THEN TrimSuffix(p6, ".tmpl") ELSE p6

\* getOutputPath that gives up (returns the empty path) when a placeholder
\* is left after the four substitutions
getOutputPath_Strict(templatePath, data) ==
    LET p0 == TrimPrefix(templatePath, "templates/")
        p1 == IF HasSuffix(p0, ".tmpl") THEN TrimSuffix(p0, ".tmpl") ELSE p0
        p2 == ReplaceAll(p1, "{{.AppName}}", data.AppName)
        p3 == ReplaceAll(p2, "{{.Domain}}", data.Domain)
        p4 == ReplaceAll(p3, "{{.domain}}", data.DomainLower)
        p5 == ReplaceAll(p4, "{{.domain_plural}}", data.DomainPlural)
    IN  IF ReplaceAll(p5, "{{", "") # p5 THEN "" ELSE p5

\* getOutputPath with the four substitutions made in the opposite order
getOutputPath_LastTokenFirst(templatePath, data) ==
    LET p0 == TrimPrefix(templatePath, "templates/")
        p1 == IF HasSuffix(p0, ".tmpl") THEN TrimSuffix(p0, ".tmpl") ELSE p0
        p2 == ReplaceAll(p1, "{{.domain_plural}}", data.DomainPlural)
        p3 == ReplaceAll(p2, "{{.domain}}", data.DomainLower)
        p4 == ReplaceAll(p3, "{{.Domain}}", data.Domain)
        p5 == ReplaceAll(p4, "{{.AppName}}", data.AppName)
    IN  p5

getOutputPath(templatePath, data) ==
    LET p0 == TrimPrefix(templatePath, "templates/")
        p1 == IF HasSuffix(p0, ".tmpl") THEN TrimSuffix(p0, ".tmpl") ELSE p0
        p2 == ReplaceAll(p1, "{{.AppName}}", data.AppName)
        p3 == ReplaceAll(p2, "{{.Domain}}", data.Domain)
        p4 == ReplaceAll(p3, "{{.domain}}", data.DomainLower)
        p5 == ReplaceAll(p4, "{{.domain_plural}}", data.DomainPlural)
    IN  p5


(***************************************************************************)
(* Generator.PostProcess: the external commands                            *)
(***************************************************************************)
\* PostProcess with "go mod init" handled like a best-effort step
PostProcessSteps_InitBestEffort ==
    << [cmd |-> "go mod init",    fatal |-> FALSE,
        msg |-> "failed to initialize go module"],
       [cmd |-> "sqlc generate",  fatal |-> FALSE,
        msg |-> "SQLc generation failed"],
       [cmd |-> "go mod tidy",    fatal |-> TRUE,
        msg |-> "failed to run go mod tidy"],
       [cmd |-> "go fmt ./...",   fatal |-> TRUE,
        msg |-> "failed to format generated code"],
       [cmd |-> "goimports -w .", fatal |-> FALSE,
        msg |-> "goimports not available or failed"],
       [cmd |-> "go build ./...", fatal |-> FALSE,
        msg |-> "Build failed (this is expected if dependencies require database)"] >>

\* PostProcess returning the error of a failed goimports
PostProcessSteps_GoimportsFatal ==
    << [cmd |-> "go mod init",    fatal |-> TRUE,
        msg |-> "failed to initialize go module"],
       [cmd |-> "sqlc generate",  fatal |-> FALSE,
        msg |-> "SQLc generation failed"],
       [cmd |-> "go mod tidy",    fatal |-> TRUE,
        msg |-> "failed to run go mod tidy"],
       [cmd |-> "go fmt ./...",   fatal |-> TRUE,
        msg |-> "failed to format generated code"],
       [cmd |-> "goimports -w .", fatal |-> TRUE,
        msg |-> "goimports not available or failed"],
       [cmd |-> "go build ./...", fatal |-> FALSE,
        msg |-> "Build failed (this is expected if dependencies require database)"] >>

\* PostProcess returning the error of a failed build
PostProcessSteps_BuildFatal ==
    << [cmd |-> "go mod init",    fatal |-> TRUE,
        msg |-> "failed to initialize go module"],
       [cmd |-> "sqlc generate",  fatal |-> FALSE,
        msg |-> "SQLc generation failed"],
       [cmd |-> "go mod tidy",    fatal |-> TRUE,
        msg |-> "failed to run go mod tidy"],
       [cmd |-> "go fmt ./...",   fatal |-> TRUE,
        msg |-> "failed to format generated code"],
       [cmd |-> "goimports -w .", fatal |-> FALSE,
        msg |-> "goimports not available or failed"],
       [cmd |-> "go build ./...", fatal |-> TRUE,
        msg |-> "Build failed (this is expected if dependencies require database)"] >>

\* the commands PostProcess runs, in the order of the code; a fatal step
\* returns fmt.Errorf(msg + ": %w", err), a best-effort step prints msg as
\* a warning and goes on
PostProcessSteps ==
    << [cmd |-> "go mod init",    fatal |-> TRUE,
        msg |-> "failed to initialize go module"],
       [cmd |-> "sqlc generate",  fatal |-> FALSE,
        msg |-> "SQLc generation failed"],
       [cmd |-> "go mod tidy",    fatal |-> TRUE,
        msg |-> "failed to run go mod tidy"],
       [cmd |-> "go fmt ./...",   fatal |-> TRUE,
        msg |-> "failed to format generated code"],
       [cmd |-> "goimports -w .", fatal |-> FALSE,
        msg |-> "goimports not available or failed"],
       [cmd |-> "go build ./...", fatal |-> FALSE,
        msg |-> "Build failed (this is expected if dependencies require database)"] >>

\* the text of the error an operating-system call or the embedded file
\* system returns, and of the error of a command that exits non-zero
OsError   == "permission denied"
ExitError == "exit status 1"

\* the nil error
Nil == "<nil>"

(***************************************************************************)
(* State                                                                   *)
(***************************************************************************)
VARIABLES
    templatesFS,  \* the embedded store: the set of its template files
    inv,          \* the Generate calls: call -> [outputDir, config]
    files,        \* the disk: path of a regular file -> its content
    dirs,         \* the disk: the directories that exist
    pc,           \* call -> where the call is
    data,         \* call -> the TemplateData of the call
    todo,         \* call -> the entries WalkDir has still to visit
    buf,          \* call -> the rendered bytes of the current template
    step,         \* call -> index of the next PostProcess command
    running,      \* call -> the external command that runs, or ""
    warnings,     \* call -> the warnings printed so far
    err,          \* call -> the error Generate returned (Nil: none)
    trace,        \* call -> what the call has done so far, in order
    input,        \* the arguments the derivation functions are applied to
    output,       \* what the derivation functions returned for input
    cli           \* the create command: where it is, what it was given

vars == <<templatesFS, inv, files, dirs, pc, data, todo, buf, step, running,
          warnings, err, trace, input, output, cli>>

\* a rendering that also depends on when it is made (on how many files
\* there are on the disk at that moment)
Render_Clock(path, ctx) ==
    [kind |-> "rendered", tmpl |-> path, data |-> ctx,
     at |-> Cardinality(DOMAIN files)]

\* text/template: the bytes tmpl.Execute writes for the template at path
\* with the data context ctx (the template language is not interpreted;
\* the output is determined by the template and the data)
Render(path, ctx) == [kind |-> "rendered", tmpl |-> path, data |-> ctx]

Calls == DOMAIN inv

\* a project directory that leaves the application name out
projectDir_OutputDirOnly(p) == Clean(inv[p].outputDir)

projectDir(p) == Join(inv[p].outputDir, inv[p].config.AppName)

\* the WalkDir entry the callback is working on
entry(p) == Head(todo[p])

\* outputPath of the current template: filepath.Join(projectDir,
\* getOutputPath(path, data))
outputPath(p) == Join(projectDir(p), getOutputPath(entry(p).path, data[p]))

Event(op, arg, ok) == [op |-> op, arg |-> arg, ok |-> ok]

Log(p, op, arg, ok) ==
    trace' = [trace EXCEPT ![p] = Append(@, Event(op, arg, ok))]

\* os.MkdirAll(d) can succeed unless d or one of its ancestors is a
\* regular file; os.WriteFile(f) can succeed when the directory of f
\* exists and f is not a directory
CanMkdirAll(d) == Ancestors(d) \cap DOMAIN files = {}
CanWriteFile(f) == Dir(f) \in dirs /\ f \notin dirs

\* a write that leaves a file that exists as it is
WithFile_KeepExisting(fs, path, content) ==
    IF path \in DOMAIN fs THEN fs
    ELSE [q \in DOMAIN fs \cup {path} |-> IF q = path THEN content ELSE fs[q]]

WithFile(fs, path, content) ==
    [q \in DOMAIN fs \cup {path} |-> IF q = path THEN content ELSE fs[q]]

\* Generate returns e
Return(p, e) ==
    /\ pc'  = [pc EXCEPT ![p] = "done"]
    /\ err' = [err EXCEPT ![p] = e]

\* is the path q the directory d or below it
Under(d, q) == q = d \/ HasPrefix(q, d \o "/")

\* an error path that removes the project directory before returning
TemplateError_Cleanup(p, e) ==
    /\ Return(p, e)
    /\ files' = [q \in {f \in DOMAIN files : ~ Under(projectDir(p), f)}
                    |-> files[q]]
    /\ dirs' = {d \in dirs : ~ Under(projectDir(p), d)}
    /\ UNCHANGED todo

\* the callback of processTemplates returns the error e: WalkDir stops and
\* processTemplates and Generate return it unchanged
TemplateError(p, e) ==
    /\ Return(p, e)
    /\ UNCHANGED <<todo, files, dirs>>

(***************************************************************************)
(* Generate: build the data, create the project directory                  *)
(***************************************************************************)
\* a Generate that goes on to the templates when the project directory
\* could not be created
Generate_IgnoreMkdirError(p) ==
    /\ pc[p] = "Generate"
    /\ data' = [data EXCEPT ![p] = TemplateData(inv[p].config)]
    /\ \E ok \in BOOLEAN :
          /\ ok => CanMkdirAll(projectDir(p))
          /\ Log(p, "mkdirProject", projectDir(p), ok)
          /\ dirs' = IF ok THEN dirs \cup Ancestors(projectDir(p)) ELSE dirs
          /\ pc'   = [pc EXCEPT ![p] = "walk"]
          /\ todo' = [todo EXCEPT ![p] = WalkDir(templatesFS)]
          /\ UNCHANGED err
    /\ UNCHANGED <<input, output, cli>>
    /\ UNCHANGED <<templatesFS, inv, files, buf, step, running, warnings>>

Generate(p) ==
    /\ pc[p] = "Generate"
    /\ data' = [data EXCEPT ![p] = TemplateData(inv[p].config)]
    /\ \E ok \in BOOLEAN :
          /\ ok => CanMkdirAll(projectDir(p))
          /\ Log(p, "mkdirProject", projectDir(p), ok)
          /\ IF ok
             THEN /\ dirs' = dirs \cup Ancestors(projectDir(p))
                  /\ pc'   = [pc EXCEPT ![p] = "walk"]
                  /\ todo' = [todo EXCEPT ![p] = WalkDir(templatesFS)]
                  /\ UNCHANGED err
             ELSE /\ Return(p, "failed to create project directory: " \o OsError)
                  /\ UNCHANGED <<dirs, todo>>
    /\ UNCHANGED <<input, output, cli>>
    /\ UNCHANGED <<templatesFS, inv, files, buf, step, running, warnings>>

(***************************************************************************)
(* processTemplates: the WalkDir callback, one step per call it makes      *)
(***************************************************************************)
\* WalkDir has visited every entry: processTemplates returns nil and
\* Generate calls PostProcess
WalkDone(p) ==
    /\ pc[p] = "walk"
    /\ todo[p] = << >>
    /\ pc' = [pc EXCEPT ![p] = "run"]
    /\ UNCHANGED <<input, output, cli>>
    /\ UNCHANGED <<templatesFS, inv, files, dirs, data, todo, buf, step,
                   running, warnings, err, trace>>

\* a callback that returns fs.SkipDir for a directory: WalkDir does not
\* descend into it
WalkDirEntry_SkipDir(p) ==
    /\ pc[p] = "walk"
    /\ todo[p] # << >>
    /\ entry(p).isDir
    /\ \E ok \in BOOLEAN :
          IF ok
          THEN /\ todo' = [todo EXCEPT ![p] =
                              SelectSeq(Tail(@),
                                  LAMBDA e : ~ Under(entry(p).path, e.path))]
               /\ UNCHANGED <<pc, err, trace>>
          ELSE /\ Log(p, "readdir", entry(p).path, FALSE)
               /\ Return(p, OsError)
               /\ UNCHANGED todo
    /\ UNCHANGED <<input, output, cli>>
    /\ UNCHANGED <<templatesFS, inv, files, dirs, data, buf, step, running,
                   warnings>>

\* the entry is a directory: skipped, unless WalkDir reports an error
\* reading it, which the callback returns as it is
WalkDirEntry(p) ==
    /\ pc[p] = "walk"
    /\ todo[p] # << >>
    /\ entry(p).isDir
    /\ \E ok \in BOOLEAN :
          IF ok
          THEN /\ todo' = [todo EXCEPT ![p] = Tail(@)]
               /\ UNCHANGED <<pc, err, trace>>
          ELSE /\ Log(p, "readdir", entry(p).path, FALSE)
               /\ Return(p, OsError)
               /\ UNCHANGED todo
    /\ UNCHANGED <<input, output, cli>>
    /\ UNCHANGED <<templatesFS, inv, files, dirs, data, buf, step, running,
                   warnings>>

ReadTemplate(p) ==
    /\ pc[p] = "walk"
    /\ todo[p] # << >>
    /\ ~ entry(p).isDir
    /\ \E ok \in BOOLEAN :
          /\ Log(p, "read", entry(p).path, ok)
          /\ IF ok
             THEN /\ pc' = [pc EXCEPT ![p] = "parse"]
                  /\ UNCHANGED <<err, todo, files, dirs>>
             ELSE TemplateError(p, "failed to read template file "
                                    \o entry(p).path \o ": " \o OsError)
    /\ UNCHANGED <<input, output, cli>>
    /\ UNCHANGED <<templatesFS, inv, data, buf, step, running, warnings>>

\* a callback that goes on with the next template after a parse error
ParseTemplate_Continue(p) ==
    /\ pc[p] = "parse"
    /\ \E ok \in BOOLEAN :
          /\ Log(p, "parse", entry(p).path, ok)
          /\ IF ok
             THEN /\ pc' = [pc EXCEPT ![p] = "execute"]
                  /\ UNCHANGED <<err, todo, files, dirs>>
             ELSE /\ pc' = [pc EXCEPT ![p] = "walk"]
                  /\ todo' = [todo EXCEPT ![p] = Tail(@)]
                  /\ UNCHANGED <<err, files, dirs>>
    /\ UNCHANGED <<input, output, cli>>
    /\ UNCHANGED <<templatesFS, inv, data, buf, step, running, warnings>>

ParseTemplate(p) ==
    /\ pc[p] = "parse"
    /\ \E ok \in BOOLEAN :
          /\ Log(p, "parse", entry(p).path, ok)
          /\ IF ok
             THEN /\ pc' = [pc EXCEPT ![p] = "execute"]
                  /\ UNCHANGED <<err, todo, files, dirs>>
             ELSE TemplateError(p, "failed to parse template "
                                    \o entry(p).path \o ": syntax error")
    /\ UNCHANGED <<input, output, cli>>
    /\ UNCHANGED <<templatesFS, inv, data, buf, step, running, warnings>>

ExecuteTemplate(p) ==
    /\ pc[p] = "execute"
    /\ \E ok \in BOOLEAN :
          /\ Log(p, "execute", entry(p).path, ok)
          /\ IF ok
             THEN /\ pc'  = [pc EXCEPT ![p] = "mkdir"]
                  /\ buf' = [buf EXCEPT ![p] = Render(entry(p).path, data[p])]
                  /\ UNCHANGED <<err, todo, files, dirs>>
             ELSE /\ TemplateError(p, "failed to execute template "
                                       \o entry(p).path \o ": undefined field")
                  /\ UNCHANGED buf
    /\ UNCHANGED <<input, output, cli>>
    /\ UNCHANGED <<templatesFS, inv, data, step, running, warnings>>

MkdirParent(p) ==
    /\ pc[p] = "mkdir"
    /\ \E ok \in BOOLEAN :
          /\ ok => CanMkdirAll(Dir(outputPath(p)))
          /\ Log(p, "mkdir", entry(p).path, ok)
          /\ IF ok
             THEN /\ dirs' = dirs \cup Ancestors(Dir(outputPath(p)))
                  /\ pc'   = [pc EXCEPT ![p] = "write"]
                  /\ UNCHANGED <<err, todo, files>>
             ELSE TemplateError(p, "failed to create directory for "
                                    \o outputPath(p) \o ": " \o OsError)
    /\ UNCHANGED <<input, output, cli>>
    /\ UNCHANGED <<templatesFS, inv, data, buf, step, running, warnings>>

WriteFile(p) ==
    /\ pc[p] = "write"
    /\ \E ok \in BOOLEAN :
          /\ ok => CanWriteFile(outputPath(p))
          /\ Log(p, "write", entry(p).path, ok)
          /\ IF ok
             THEN /\ files' = WithFile(files, outputPath(p), buf[p])
                  /\ todo'  = [todo EXCEPT ![p] = Tail(@)]
                  /\ pc'    = [pc EXCEPT ![p] = "walk"]
                  /\ UNCHANGED <<err, dirs>>
             ELSE TemplateError(p, "failed to write file "
                                    \o outputPath(p) \o ": " \o OsError)
    /\ UNCHANGED <<input, output, cli>>
    /\ UNCHANGED <<templatesFS, inv, data, buf, step, running, warnings>>

(***************************************************************************)
(* PostProcess: runCommand starts a command and waits for it to exit       *)
(***************************************************************************)
\* runCommand with cmd.Start in place of cmd.Run: PostProcess goes on to
\* the next step without waiting for the process
StartCommand_NoWait(p) ==
    /\ pc[p] = "run"
    /\ Log(p, "start", PostProcessSteps[step[p]].cmd, TRUE)
    /\ IF step[p] < Len(PostProcessSteps)
       THEN /\ step' = [step EXCEPT ![p] = @ + 1]
            /\ UNCHANGED pc
       ELSE /\ pc' = [pc EXCEPT ![p] = "done"]
            /\ UNCHANGED step
    /\ UNCHANGED <<input, output, cli>>
    /\ UNCHANGED <<templatesFS, inv, files, dirs, data, todo, buf, running,
                   warnings, err>>

\* exec.Cmd.Run, first half: the process is spawned
StartCommand(p) ==
    /\ pc[p] = "run"
    /\ running[p] = ""
    /\ running' = [running EXCEPT ![p] = PostProcessSteps[step[p]].cmd]
    /\ pc' = [pc EXCEPT ![p] = "wait"]
    /\ Log(p, "start", PostProcessSteps[step[p]].cmd, TRUE)
    /\ UNCHANGED <<input, output, cli>>
    /\ UNCHANGED <<templatesFS, inv, files, dirs, data, todo, buf, step,
                   warnings, err>>

\* the go.mod file "go mod init" writes
GoMod(p) == Join(projectDir(p), "go.mod")

\* a PostProcess that runs a failed best-effort step again
AfterCommand_Retry(k, ok) ==
    LET s == PostProcessSteps[k] IN
    IF ~ ok /\ s.fatal
    THEN [return |-> TRUE, warn |-> << >>,
          err |-> "post-processing failed: " \o s.msg \o ": " \o ExitError]
    ELSE IF ~ ok
         THEN [return |-> FALSE, next |-> k, warn |-> <<s.msg>>]
    ELSE IF k = Len(PostProcessSteps)
         THEN [return |-> TRUE, err |-> Nil, warn |-> << >>]
         ELSE [return |-> FALSE, next |-> k + 1, warn |-> << >>]

\* what PostProcess does with the outcome ok of step k, after printing the
\* warnings warn: [return |-> TRUE, err |-> e] when Generate returns e,
\* [return |-> FALSE, next |-> k'] when it goes on with step k'
AfterCommand(k, ok) ==
    LET s == PostProcessSteps[k] IN
    IF ~ ok /\ s.fatal
    THEN [return |-> TRUE, warn |-> << >>,
          err |-> "post-processing failed: " \o s.msg \o ": " \o ExitError]
    ELSE IF k = Len(PostProcessSteps)
         THEN [return |-> TRUE, err |-> Nil,
               warn |-> IF ok THEN << >> ELSE <<s.msg>>]
         ELSE [return |-> FALSE, next |-> k + 1,
               warn |-> IF ok THEN << >> ELSE <<s.msg>>]

\* exec.Cmd.Run, second half: the process has exited, with status zero
\* (ok) or not; PostProcess goes on according to the step
CommandExit(p) ==
    /\ pc[p] = "wait"
    /\ running[p] # ""
    /\ \E ok \in BOOLEAN :
          LET k == step[p]
              a == AfterCommand(k, ok)
              initOk == ok /\ running[p] = "go mod init"
          IN  \* go mod init refuses to replace an existing go.mod
              /\ initOk => GoMod(p) \notin DOMAIN files \cup dirs
              /\ files' = IF initOk
                          THEN WithFile(files, GoMod(p),
                                        [kind |-> "gomod",
                                         module |-> data[p].ModuleName])
                          ELSE files
              /\ Log(p, "exit", running[p], ok)
              /\ running' = [running EXCEPT ![p] = ""]
              /\ IF a.return
                 THEN /\ Return(p, a.err)
                      /\ UNCHANGED step
                 ELSE /\ pc'   = [pc EXCEPT ![p] = "run"]
                      /\ step' = [step EXCEPT ![p] = a.next]
                      /\ UNCHANGED err
              /\ warnings' = [warnings EXCEPT ![p] = @ \o a.warn]
    /\ UNCHANGED <<input, output, cli>>
    /\ UNCHANGED <<templatesFS, inv, dirs, data, todo, buf>>

(***************************************************************************)
(* Specification                                                           *)
(***************************************************************************)
NoContent == [kind |-> "none"]

\* Generate is called directly, not by the create command
NoCli == [pc |-> "none"]

\* nothing is being derived
NoInput == [path |-> "", config |-> ZeroConfig, feature |-> ""]
NoOutput == [done |-> {}, data |-> ZeroData, path |-> "", has |-> FALSE]

\* one Generate call, as the CLI makes it: the output directory exists
Init ==
    /\ templatesFS \in Stores
    /\ inv \in [{1} -> [outputDir : {OutputDir}, config : Configs]]
    /\ files = << >>
    /\ dirs = {OutputDir}
    /\ pc = [p \in {1} |-> "Generate"]
    /\ data = [p \in {1} |-> ZeroData]
    /\ todo = [p \in {1} |-> << >>]
    /\ buf = [p \in {1} |-> NoContent]
    /\ step = [p \in {1} |-> 1]
    /\ running = [p \in {1} |-> ""]
    /\ warnings = [p \in {1} |-> << >>]
    /\ err = [p \in {1} |-> Nil]
    /\ trace = [p \in {1} |-> << >>]
    /\ input = NoInput
    /\ output = NoOutput
    /\ cli = NoCli

Next ==
    \E p \in Calls :
        \/ Generate(p)
        \/ WalkDone(p)
        \/ WalkDirEntry(p)
        \/ ReadTemplate(p)
        \/ ParseTemplate(p)
        \/ ExecuteTemplate(p)
        \/ MkdirParent(p)
        \/ WriteFile(p)
        \/ StartCommand(p)
        \/ CommandExit(p)

Spec == Init /\ [][Next]_vars

(***************************************************************************)
(* The derivation functions on their own: TemplateData (with titleCase and *)
(* inflection.Plural), getOutputPath and the HasFeature closure, applied   *)
(* to arguments drawn from pools that are wider than what one store holds  *)
(***************************************************************************)
\* domain words
WordPool ==
    << "order", "category", "bus", "person", "", "product", "PRODUCT",
       "day", "dish", "x.tmpl", "{{.AppName}}", "church" >>

\* how many words of WordPool the arguments are drawn from
NumWords == 11

Words == { WordPool[i] : i \in 1..NumWords }

\* application names: a plain one, one that ends like a template file, one
\* that starts like the template root, one that is itself a later token,
\* one that holds a later token
AppNames ==
    {"shop", "lib.tmpl", "templates/a", "{{.domain}}", "{{.Domain}}-api"}

\* Features lists: empty, one entry, a duplicate, two orders of one set
FeatureLists ==
    { << >>, <<"auth">>, <<"auth", "auth">>, <<"Auth", "cache">>,
      <<"cache", "Auth">> }

\* feature names templates may ask for
FeatureNames == {"auth", "Auth", "AUTH", "cache"}

\* virtual paths handed to getOutputPath
PathPool ==
    { "templates/{{AppName}}/{{Domain}}.go.tmpl",
      "templates/{{.AppName}}/{{.Domain}}.go.tmpl",
      "templates/cmd/{{.AppName}}",
      "templates/{{.AppName}}/x.tmpl",
      "{{.AppName}}.tmpl",
      "templates/{{.Domain}}",
      "templates/{{.domain}}/{{.domain_plural}}.sql.tmpl",
      "templates/{{.Unknown}}/{{ .AppName }}.txt",
      "templates/{{.DomainTitle}}.go.tmpl",
      "templates/templates/a.tmpl.tmpl",
      "templates/Makefile",
      "" }

DeriveInputs ==
    [ path    : PathPool,
      config  : [ AppName : AppNames, ModuleName : {"github.com/user/shop"},
                  Domain : Words, Description : {"A order management API"},
                  Author : {"Developer"}, Features : FeatureLists ],
      feature : FeatureNames ]

\* Generate's first statement: data := &TemplateData{...}
BuildTemplateData ==
    /\ "TemplateData" \notin output.done
    /\ output' = [output EXCEPT !.done = @ \cup {"TemplateData"},
                                !.data = TemplateData(input.config)]
    /\ UNCHANGED <<input, cli, templatesFS, inv, files, dirs, pc, data, todo, buf,
                   step, running, warnings, err, trace>>

\* g.getOutputPath(path, data)
ResolvePath ==
    /\ "TemplateData" \in output.done
    /\ "getOutputPath" \notin output.done
    /\ output' = [output EXCEPT !.done = @ \cup {"getOutputPath"},
                                !.path = getOutputPath(input.path, output.data)]
    /\ UNCHANGED <<input, cli, templatesFS, inv, files, dirs, pc, data, todo, buf,
                   step, running, warnings, err, trace>>

\* a template calls .HasFeature
AskFeature ==
    /\ "TemplateData" \in output.done
    /\ "HasFeature" \notin output.done
    /\ output' = [output EXCEPT !.done = @ \cup {"HasFeature"},
                                !.has = HasFeature(output.data, input.feature)]
    /\ UNCHANGED <<input, cli, templatesFS, inv, files, dirs, pc, data, todo, buf,
                   step, running, warnings, err, trace>>

\* no Generate call is in progress; the arguments are any of DeriveInputs
DeriveInit ==
    /\ input \in DeriveInputs
    /\ output = NoOutput
    /\ cli = NoCli
    /\ templatesFS = {}
    /\ inv = << >>
    /\ files = << >>
    /\ dirs = {}
    /\ pc = << >>
    /\ data = << >>
    /\ todo = << >>
    /\ buf = << >>
    /\ step = << >>
    /\ running = << >>
    /\ warnings = << >>
    /\ err = << >>
    /\ trace = << >>

DeriveNext ==
    \/ BuildTemplateData
    \/ ResolvePath
    \/ AskFeature

DeriveSpec == DeriveInit /\ [][DeriveNext]_vars

(***************************************************************************)
(* Properties                                                              *)
(***************************************************************************)
FatalCommands      == {"go mod init", "go mod tidy", "go fmt ./..."}
BestEffortCommands == {"sqlc generate", "goimports -w .", "go build ./..."}

\* the fixed order of the post-processing commands
CommandOrder ==
    <<"go mod init", "sqlc generate", "go mod tidy", "go fmt ./...",
      "goimports -w .", "go build ./...">>

TemplateOps == {"readdir", "read", "parse", "execute", "mkdir", "write"}

IsCommandEvent(e)  == e.op \in {"start", "exit"}
IsTemplateEvent(e) == e.op \in TemplateOps

CommandEvents(p)  == SelectSeq(trace[p], IsCommandEvent)
TemplateEvents(p) == SelectSeq(trace[p], IsTemplateEvent)

Happened(p, op, arg, ok) ==
    \E i \in 1..Len(trace[p]) : trace[p][i] = Event(op, arg, ok)

\* some step of the template phase has failed
TemplateFailed(p) ==
    \E i \in 1..Len(trace[p]) :
        IsTemplateEvent(trace[p][i]) /\ ~ trace[p][i].ok

\* C1: when a fatal command (go mod init, go mod tidy, go fmt) exits with a
\* failure, that exit is the last thing the call does: no command is started
\* after it, and Generate has returned an error.
C1_FatalStepAborts ==
    \A p \in Calls : \A i \in 1..Len(trace[p]) :
        LET e == trace[p][i] IN
        (e.op = "exit" /\ ~ e.ok /\ e.arg \in FatalCommands) =>
            /\ \A j \in (i + 1)..Len(trace[p]) : trace[p][j].op # "start"
            /\ pc[p] = "done"
            /\ err[p] # Nil

\* a run in which go mod init failed: go mod tidy was never started
C1_Witness ==
    \E p \in Calls :
        /\ pc[p] = "done"
        /\ Happened(p, "exit", "go mod init", FALSE)
        /\ ~ Happened(p, "start", "go mod tidy", TRUE)
        /\ HasPrefix(err[p], "post-processing failed: failed to initialize go module")

\* the command after cmd in the fixed order ("" after the last one)
Successor(cmd) ==
    LET k == CHOOSE i \in 1..Len(CommandOrder) : CommandOrder[i] = cmd
    IN  IF k < Len(CommandOrder) THEN CommandOrder[k + 1] ELSE ""

\* the failed exits of best-effort commands so far
BestEffortFailures(p) ==
    { i \in 1..Len(trace[p]) :
         /\ trace[p][i].op = "exit"
         /\ ~ trace[p][i].ok
         /\ trace[p][i].arg \in BestEffortCommands }

\* C2: when a best-effort command (sqlc generate, goimports, go build) exits
\* with a failure, a warning is printed for it (one warning per such
\* failure), no error is returned because of it, and the next command of
\* the fixed order is what the call starts next: either it has been started
\* right after the failure, or the call stands before starting it.
C2_BestEffortContinues ==
    \A p \in Calls : \A i \in 1..Len(trace[p]) :
        LET e    == trace[p][i]
            succ == Successor(e.arg)
        IN
        (e.op = "exit" /\ ~ e.ok /\ e.arg \in BestEffortCommands) =>
            /\ Len(warnings[p]) = Cardinality(BestEffortFailures(p))
            /\ succ = "" => (pc[p] = "done" /\ err[p] = Nil)
            /\ (succ # "" /\ i < Len(trace[p])) =>
                  trace[p][i + 1] = Event("start", succ, TRUE)
            /\ (succ # "" /\ i = Len(trace[p])) =>
                  /\ pc[p] = "run"
                  /\ err[p] = Nil
                  /\ PostProcessSteps[step[p]].cmd = succ
                  /\ ENABLED StartCommand(p)

\* goimports failed and the build was started all the same
C2_Witness ==
    \E p \in Calls :
        /\ Happened(p, "exit", "goimports -w .", FALSE)
        /\ Happened(p, "start", "go build ./...", TRUE)
        /\ warnings[p] # << >>

\* the project directory was created, every template was written and the
\* three fatal commands succeeded
AllRequiredSucceeded(p) ==
    /\ Happened(p, "mkdirProject", projectDir(p), TRUE)
    /\ \A f \in templatesFS : Happened(p, "write", f, TRUE)
    /\ \A c \in FatalCommands : Happened(p, "exit", c, TRUE)

\* C3: when Generate has returned, it has returned nil exactly if the
\* project directory was created, every template was rendered and written
\* and go mod init, go mod tidy and go fmt succeeded, whatever the outcome
\* of the best-effort commands; and after a nil return go.mod exists.
C3_SuccessIffRequiredSteps ==
    \A p \in Calls :
        pc[p] = "done" =>
            /\ (err[p] = Nil) <=> AllRequiredSucceeded(p)
            /\ err[p] = Nil => GoMod(p) \in DOMAIN files

\* Generate returned nil although all three best-effort commands failed
C3_Witness ==
    \E p \in Calls :
        /\ pc[p] = "done"
        /\ err[p] = Nil
        /\ \A c \in BestEffortCommands : Happened(p, "exit", c, FALSE)

\* C4: the commands run one at a time in the fixed order: the start and exit
\* events of a call alternate, beginning with a start, and the k-th command
\* started and the k-th command that exited are the k-th command of the
\* fixed order; a command is running exactly between its start and its
\* exit.
C4_CommandsSequentialInOrder ==
    \A p \in Calls :
        LET ce == CommandEvents(p) IN
        /\ Len(ce) <= 2 * Len(CommandOrder)
        /\ \A i \in 1..Len(ce) :
              /\ ce[i].op = (IF i % 2 = 1 THEN "start" ELSE "exit")
              /\ ce[i].arg = CommandOrder[(i + 1) \div 2]
        /\ running[p] # "" <=> Len(ce) % 2 = 1
        /\ running[p] # "" => running[p] = ce[Len(ce)].arg

\* all six commands have run
C4_Witness ==
    \E p \in Calls :
        /\ Len(CommandEvents(p)) = 12
        /\ pc[p] = "done"

\* C5: nothing is attempted twice in a call: no two events of the call are
\* the same operation on the same template or the same command, whatever
\* their outcome.
C5_NoRetry ==
    \A p \in Calls : \A i, j \in 1..Len(trace[p]) :
        (i # j) =>
            ~ (/\ trace[p][i].op = trace[p][j].op
               /\ trace[p][i].arg = trace[p][j].arg)

\* a run that went on to its end after sqlc generate had failed
C5_Witness ==
    \E p \in Calls :
        /\ pc[p] = "done"
        /\ Happened(p, "exit", "sqlc generate", FALSE)
        /\ Happened(p, "exit", "go build ./...", TRUE)
        /\ Cardinality(templatesFS) >= 2

\* C6: when a step of the template phase fails (reading a directory or a
\* template, parsing, rendering, creating the directory, writing), it is
\* the last thing the call does: nothing is read, rendered or written after
\* it, and Generate has returned an error.
C6_TemplateFailFast ==
    \A p \in Calls : \A i \in 1..Len(trace[p]) :
        (IsTemplateEvent(trace[p][i]) /\ ~ trace[p][i].ok) =>
            /\ i = Len(trace[p])
            /\ pc[p] = "done"
            /\ err[p] # Nil

\* the parse of a template failed while later templates were still to come
C6_Witness ==
    \E p \in Calls :
        /\ pc[p] = "done"
        /\ Len(trace[p]) > 0
        /\ trace[p][Len(trace[p])].op = "parse"
        /\ ~ trace[p][Len(trace[p])].ok
        /\ \E i \in 2..Len(todo[p]) : ~ todo[p][i].isDir

\* the output path of the template f in the call p
OutputOf(p, f) == Join(projectDir(p), getOutputPath(f, data[p]))

\* the template whose rendering the call wrote last to the path q
LastWritten(p, q) ==
    LET ws == { i \in 1..Len(trace[p]) :
                   /\ trace[p][i].op = "write"
                   /\ trace[p][i].ok
                   /\ OutputOf(p, trace[p][i].arg) = q }
    IN  trace[p][CHOOSE i \in ws : \A j \in ws : j <= i].arg

\* C7: after Generate has failed in the template phase, the project
\* directory exists and every file the call has written is on disk, holding
\* the rendering that was written to it last.
C7_NoRollback ==
    \A p \in Calls :
        (pc[p] = "done" /\ TemplateFailed(p)) =>
            /\ projectDir(p) \in dirs
            /\ \A i \in 1..Len(trace[p]) :
                  LET e == trace[p][i] IN
                  (e.op = "write" /\ e.ok) =>
                      /\ OutputOf(p, e.arg) \in DOMAIN files
                      /\ files[OutputOf(p, e.arg)]
                            = Render(LastWritten(p, OutputOf(p, e.arg)), data[p])

\* Generate failed on the third template after two files were written
C7_Witness ==
    \E p \in Calls :
        /\ pc[p] = "done"
        /\ TemplateFailed(p)
        /\ Cardinality({ i \in 1..Len(trace[p]) :
                            trace[p][i].op = "write" /\ trace[p][i].ok }) = 2
        /\ Cardinality(DOMAIN files) = 2

\* C8: a command is started only after every template of the store has been
\* written; after the first command has started no template step happens;
\* and a call in which a template step failed starts no command.
C8_PostProcessAfterTemplates ==
    \A p \in Calls :
        /\ \A i \in 1..Len(trace[p]) :
              trace[p][i].op = "start" =>
                  /\ \A f \in templatesFS :
                        \E j \in 1..(i - 1) :
                            trace[p][j] = Event("write", f, TRUE)
                  /\ \A j \in (i + 1)..Len(trace[p]) :
                        ~ IsTemplateEvent(trace[p][j])
        /\ TemplateFailed(p) =>
              \A i \in 1..Len(trace[p]) : trace[p][i].op # "start"

\* the first command runs, after the three templates of the store were
\* written
C8_Witness ==
    \E p \in Calls :
        /\ running[p] = "go mod init"
        /\ Cardinality(templatesFS) = 3
        /\ \A f \in templatesFS : Happened(p, "write", f, TRUE)

\* processTemplates has returned nil in the call p
TemplatePhaseSucceeded(p) ==
    \/ pc[p] \in {"run", "wait"}
    \/ pc[p] = "done" /\ Len(CommandEvents(p)) > 0

\* the files on disk that hold a rendering
RenderedFiles == { q \in DOMAIN files : files[q].kind = "rendered" }

\* the relative output path of each template resource of TemplatePool:
\* the path below "templates/", without the ".tmpl" extension, with the
\* application name and the domain word filled in
ExpectedRelPath(f, config) ==
    CASE f = "templates/Makefile" -> "Makefile"
      [] f = "templates/cmd/{{.AppName}}/main.go.tmpl" ->
             "cmd/" \o config.AppName \o "/main.go"
      [] f = "templates/internal/{{.Domain}}.go.tmpl" ->
             "internal/" \o config.Domain \o ".go"
      [] f = "templates/internal/{{.domain}}.go.tmpl" ->
             "internal/" \o ToLower(config.Domain) \o ".go"
      [] f = "templates/x" -> "x"
      [] f = "templates/x.tmpl" -> "x"

ExpectedOutputs(p) ==
    { inv[p].outputDir \o "/" \o inv[p].config.AppName \o "/"
          \o ExpectedRelPath(f, inv[p].config) : f \in templatesFS }

\* C9 as stated: once every template of a store of N resources has been
\* rendered and written, there are exactly N output files.
C9_ExactlyNFiles ==
    \A p \in Calls :
        TemplatePhaseSucceeded(p) =>
            Cardinality(RenderedFiles) = Cardinality(templatesFS)

\* C9, amended: once every template has been rendered and written, the
\* output files are exactly the resolved paths of the resources (prefix and
\* suffix stripped, tokens substituted) below the project directory, each
\* holding the rendering of the last resource in store order that resolves
\* to it: one file per distinct resolved path, hence N files when no two of
\* the N resources resolve to the same path.
C9_OneFilePerResolvedPath ==
    \A p \in Calls :
        TemplatePhaseSucceeded(p) =>
            /\ RenderedFiles = ExpectedOutputs(p)
            /\ \A q \in RenderedFiles :
                  \E f \in templatesFS :
                      /\ files[q] = Render(f, data[p])
                      /\ q = inv[p].outputDir \o "/" \o inv[p].config.AppName
                               \o "/" \o ExpectedRelPath(f, inv[p].config)
                      /\ \A g \in templatesFS :
                            ExpectedRelPath(g, inv[p].config)
                               = ExpectedRelPath(f, inv[p].config)
                            => (g = f \/ WalkLess(g, f))
            /\ (\A f, g \in templatesFS :
                   f # g => ExpectedRelPath(f, inv[p].config)
                               # ExpectedRelPath(g, inv[p].config))
                  => Cardinality(RenderedFiles) = Cardinality(templatesFS)

\* three resources were written to three files, one of them below a
\* directory named after the application
C9_Witness ==
    \E p \in Calls :
        /\ TemplatePhaseSucceeded(p)
        /\ Cardinality(templatesFS) = 3
        /\ Cardinality(RenderedFiles) = 3
        /\ "templates/cmd/{{.AppName}}/main.go.tmpl" \in templatesFS

\* the events of the steps done for template files
FileEvents(p) ==
    SelectSeq(trace[p],
              LAMBDA e : e.op \in {"read", "parse", "execute", "mkdir", "write"})

OpRank(op) ==
    CASE op = "read" -> 1 [] op = "parse" -> 2 [] op = "execute" -> 3
      [] op = "mkdir" -> 4 [] op = "write" -> 5

OpOfRank == <<"read", "parse", "execute", "mkdir", "write">>

\* C10: the templates are processed one after the other in store order: a
\* step other than the read of a template directly follows the successful
\* previous step of the same template; and of two steps for different
\* templates the earlier one belongs to the template that comes first in
\* the store, which has been written before the later one begins.
C10_TemplatesSequentialInStoreOrder ==
    \A p \in Calls :
        LET te == FileEvents(p) IN
        /\ \A j \in 1..Len(te) :
              IF OpRank(te[j].op) > 1
              THEN /\ j > 1
                   /\ te[j - 1] = Event(OpOfRank[OpRank(te[j].op) - 1],
                                        te[j].arg, TRUE)
              ELSE j > 1 => te[j - 1].op = "write"
        /\ \A i, j \in 1..Len(te) :
              (i < j /\ te[i].arg # te[j].arg) =>
                  /\ WalkLess(te[i].arg, te[j].arg)
                  /\ \E k \in i..(j - 1) :
                        te[k] = Event("write", te[i].arg, TRUE)

\* two templates are written and the third one is being rendered
C10_Witness ==
    \E p \in Calls :
        /\ pc[p] = "execute"
        /\ Cardinality({ i \in 1..Len(trace[p]) :
                            trace[p][i].op = "write" /\ trace[p][i].ok }) = 2
(***************************************************************************)
(* Two Generate calls at the same time: two processes running the          *)
(* generator, or two goroutines of one program calling Generate.  Nothing  *)
(* in Generate synchronises them; they share the disk and the embedded     *)
(* store, and their steps interleave in any order.                         *)
(***************************************************************************)
\* the resources the store of the two calls is made of
ConcTemplatePool == {"templates/Makefile", "templates/x", "templates/x.tmpl"}

\* the largest number of resources in the store of the two calls
MaxConcTemplates == 2

ConcStores ==
    { S \in SUBSET ConcTemplatePool : Cardinality(S) \in 1..MaxConcTemplates }

\* the first call: the shop application below "out"
FirstCall == [outputDir |-> OutputDir, config |-> ConfigPool[1]]

\* the second call: another application below the same output directory;
\* the same application with another domain, hence the same project
\* directory; the same configuration below another output directory; an
\* application generated inside the project directory of the first call
SecondCalls ==
    { [outputDir |-> OutputDir, config |-> ConfigPool[2]],
      [outputDir |-> OutputDir,
       config |-> [ConfigPool[1] EXCEPT !.Domain = "item",
                                        !.Description = "An item API"]],
      [outputDir |-> "out2", config |-> ConfigPool[1]],
      [outputDir |-> "out/shop", config |-> ConfigPool[2]] }

ConcInit ==
    /\ templatesFS \in ConcStores
    /\ inv \in { <<FirstCall, second>> : second \in SecondCalls }
    /\ files = << >>
    /\ dirs = UNION { Ancestors(inv[p].outputDir) : p \in {1, 2} }
    /\ pc = [p \in {1, 2} |-> "Generate"]
    /\ data = [p \in {1, 2} |-> ZeroData]
    /\ todo = [p \in {1, 2} |-> << >>]
    /\ buf = [p \in {1, 2} |-> NoContent]
    /\ step = [p \in {1, 2} |-> 1]
    /\ running = [p \in {1, 2} |-> ""]
    /\ warnings = [p \in {1, 2} |-> << >>]
    /\ err = [p \in {1, 2} |-> Nil]
    /\ trace = [p \in {1, 2} |-> << >>]
    /\ input = NoInput
    /\ output = NoOutput
    /\ cli = NoCli

ConcSpec == ConcInit /\ [][Next]_vars

(***************************************************************************)
(* The create command (cmd/create.go): runCreate fills the configuration   *)
(* in direct or in interactive mode, validateConfig checks it and asks     *)
(* before it removes a target directory that has contents, and only then   *)
(* is Generate called                                                      *)
(***************************************************************************)
\* fmt.Scanln(&s) on a line the user typed: the first space-separated
\* token of the line ("" for an empty line)
RECURSIVE SkipSpaces(_)
SkipSpaces(line) ==
    IF Len(line) > 0 /\ SubSeq(line, 1, 1) = " "
    THEN SkipSpaces(SubSeq(line, 2, Len(line)))
    ELSE line

RECURSIVE TakeToken(_)
TakeToken(line) ==
    IF Len(line) = 0 \/ SubSeq(line, 1, 1) = " " THEN ""
    ELSE SubSeq(line, 1, 1) \o TakeToken(SubSeq(line, 2, Len(line)))

Scanln(line) == TakeToken(SkipSpaces(line))

\* strings.TrimSpace
RECURSIVE TrimRight(_)
TrimRight(t) ==
    IF Len(t) > 0 /\ SubSeq(t, Len(t), Len(t)) = " "
    THEN TrimRight(SubSeq(t, 1, Len(t) - 1))
    ELSE t

TrimSpace(t) == TrimRight(SkipSpaces(t))

\* promptString: the default for an empty answer
promptString(line, defaultValue) ==
    LET answer == Scanln(line)
    IN  IF answer = "" THEN defaultValue ELSE TrimSpace(answer)

\* strings.EqualFold
EqualFold(a, b) == ToLower(a) = ToLower(b)

\* an answer that confirms whatever is typed
Confirmed_AnyAnswer(response) == response # ""

\* validateConfig: the answer to "Do you want to recreate it?" confirms
Confirmed(response) == EqualFold(response, "y") \/ EqualFold(response, "yes")

\* defaults with the Description derived before the Domain is defaulted
runDirectModeDefaults_DescriptionFirst(c) ==
    LET c1 == IF c.ModuleName = ""
              THEN [c EXCEPT !.ModuleName = "github.com/user/" \o c.AppName]
              ELSE c
        c2 == IF c1.Description = ""
              THEN [c1 EXCEPT !.Description =
                                  "A " \o c1.Domain \o " management API"]
              ELSE c1
        c3 == IF c2.Domain = "" THEN [c2 EXCEPT !.Domain = "item"] ELSE c2
        c4 == IF c3.Author = "" THEN [c3 EXCEPT !.Author = "Developer"] ELSE c3
    IN  c4

\* runDirectMode: the defaults for what was not given
runDirectModeDefaults(c) ==
    LET c1 == IF c.ModuleName = ""
              THEN [c EXCEPT !.ModuleName = "github.com/user/" \o c.AppName]
              ELSE c
        c2 == IF c1.Domain = "" THEN [c1 EXCEPT !.Domain = "item"] ELSE c1
        c3 == IF c2.Description = ""
              THEN [c2 EXCEPT !.Description =
                                  "A " \o c2.Domain \o " management API"]
              ELSE c2
        c4 == IF c3.Author = "" THEN [c3 EXCEPT !.Author = "Developer"] ELSE c3
    IN  c4

\* os.Stat(path) returns no error
Stat(path) == path \in dirs \/ path \in DOMAIN files

\* validateConfig, its first four checks: the error, or Nil
requiredFields(c) ==
    IF c.AppName = "" THEN "app name is required"
    ELSE IF c.ModuleName = "" THEN "module name is required"
    ELSE IF c.Domain = "" THEN "domain is required"
    ELSE IF ~ Stat(c.OutputDir)
         THEN "output directory does not exist: " \o c.OutputDir
    ELSE Nil

\* isDirEmpty, once os.Open has succeeded: Readdirnames(1) finds no entry,
\* or fails, as it does on a regular file
isDirEmpty(dir) ==
    \/ dir \in DOMAIN files
    \/ /\ \A f \in DOMAIN files : ~ (f # dir /\ Under(dir, f))
       /\ \A d \in dirs : ~ (d # dir /\ Under(dir, d))

\* a removal that leaves the files where they are
RemoveAllFiles_Keep(fs, dir) == fs

\* os.RemoveAll(dir): the files that are left
RemoveAllFiles(fs, dir) ==
    [f \in { g \in DOMAIN fs : ~ Under(dir, g) } |-> fs[f]]

\* os.RemoveAll(dir): the directories that are left
RemoveAllDirs(ds, dir) == { d \in ds : ~ Under(dir, d) }

targetDir == Join(cli.config.OutputDir, cli.config.AppName)

\* what the flags and the argument of "create" may be: the application
\* name may be empty, the domain may be a path that climbs out of its
\* directory, the output directory may be missing; "." is the default of
\* --output
CliFlags ==
    [ AppName     : {"shop", ""},
      ModuleName  : {"", "example.com/shop"},
      Domain      : {"", "order", "../../etc"},
      Description : {"", "Shop"},
      Author      : {"", "Ann"},
      OutputDir   : {"out", "nodir", "."},
      Features    : {<< >>} ]

\* the flags when none is given
NoFlags ==
    [ AppName |-> "", ModuleName |-> "", Domain |-> "", Description |-> "",
      Author |-> "", OutputDir |-> ".", Features |-> << >> ]

\* the lines the user may type at the prompts of the interactive mode, one
\* word each (the rest of a longer line would be read by the next prompt)
NameLines   == {"", "shop"}
ModuleLines == {"", " example.com/shop"}
DomainLines == {"", "order", "../../etc"}
TextLines   == {"", " Shop"}
DirLines    == {"", "out", "nodir"}

\* the lines the user may type when asked whether to recreate the target
AnswerLines ==
    {"", "n", "no", "y", "Y", "yes", "Yes", "YES", "yes please", "yeah"}

\* something that was on the disk before the command ran
OldContent == [kind |-> "old"]

\* the disk before the command runs: the output directories "." and "out"
\* with a file of their own, and the targets "out/shop" and "shop" absent,
\* empty, holding files, or regular files themselves
CliDisks ==
    { [dirs  |-> {".", "out"},
       files |-> [f \in {"out/keep.txt"} |-> OldContent]],
      [dirs  |-> {".", "out", "out/shop", "shop"},
       files |-> [f \in {"out/keep.txt"} |-> OldContent]],
      [dirs  |-> {".", "out", "out/shop", "out/shop/docs", "shop"},
       files |-> [f \in {"out/keep.txt", "out/shop/Makefile",
                         "out/shop/docs/old.txt", "shop/old.txt"}
                     |-> OldContent]],
      [dirs  |-> {".", "out"},
       files |-> [f \in {"out/keep.txt", "out/shop", "shop"}
                     |-> OldContent]] }

\* the embedded store of the command
CliStore ==
    {"templates/Makefile", "templates/internal/{{.Domain}}.go.tmpl"}

\* runCreate returns the error of the validation
Rejected(e) ==
    cli' = [cli EXCEPT !.pc = "done", !.verr = e,
                       !.err = "failed to create project: " \o e]

\* runCreate, direct mode: the name is the argument; runDirectMode sets the
\* defaults and goes on to validateConfig
runDirectMode ==
    /\ cli.pc = "runCreate"
    /\ ~ cli.interactive
    /\ cli' = [cli EXCEPT !.pc = "validate",
                          !.config = runDirectModeDefaults(cli.flags)]
    /\ UNCHANGED <<templatesFS, inv, files, dirs, pc, data, todo, buf, step,
                   running, warnings, err, trace, input, output>>

\* runCreate, interactive mode: runInteractiveMode asks for each value and
\* goes on to validateConfig
runInteractiveMode ==
    /\ cli.pc = "runCreate"
    /\ cli.interactive
    /\ \E l1 \in NameLines, l2 \in ModuleLines, l3 \in DomainLines,
          l4 \in TextLines, l6 \in DirLines :
          LET name   == promptString(l1, "myapp")
              module == promptString(l2, "github.com/user/" \o name)
              domain == promptString(l3, "item")
              desc   == promptString(l4, "A " \o domain \o " management API")
              author == promptString("", "Developer")
              outdir == promptString(l6, ".")
          IN  cli' = [cli EXCEPT
                        !.pc = "validate",
                        !.config = [ AppName |-> name, ModuleName |-> module,
                                     Domain |-> domain, Description |-> desc,
                                     Author |-> author, OutputDir |-> outdir,
                                     Features |-> cli.flags.Features ]]
    /\ UNCHANGED <<templatesFS, inv, files, dirs, pc, data, todo, buf, step,
                   running, warnings, err, trace, input, output>>

\* validateConfig up to the question: the required values, the output
\* directory, the target directory
validateConfig ==
    /\ cli.pc = "validate"
    /\ LET e == requiredFields(cli.config) IN
       IF e # Nil THEN Rejected(e)
       ELSE IF ~ Stat(targetDir)
            THEN cli' = [cli EXCEPT !.pc = "call"]
       ELSE \E openOk \in BOOLEAN :
               IF ~ openOk
               THEN Rejected("failed to check if directory is empty: "
                                \o OsError)
               ELSE IF isDirEmpty(targetDir)
                    THEN cli' = [cli EXCEPT !.pc = "call"]
               ELSE cli' = [cli EXCEPT !.pc = "confirm", !.asked = TRUE]
    /\ UNCHANGED <<templatesFS, inv, files, dirs, pc, data, todo, buf, step,
                   running, warnings, err, trace, input, output>>

\* validateConfig from the question on: the answer is read, and on "y" or
\* "yes" the target directory is removed
confirmOverwrite ==
    /\ cli.pc = "confirm"
    /\ \E line \in AnswerLines :
          LET response == Scanln(line) IN
          IF ~ Confirmed(response)
          THEN /\ cli' = [cli EXCEPT !.pc = "done", !.response = response,
                             !.verr = "operation cancelled",
                             !.err = "failed to create project: "
                                        \o "operation cancelled"]
               /\ UNCHANGED <<files, dirs>>
          ELSE \E ok \in BOOLEAN :
                  IF ok
                  THEN /\ files' = RemoveAllFiles(files, targetDir)
                       /\ dirs'  = RemoveAllDirs(dirs, targetDir)
                       /\ cli' = [cli EXCEPT !.pc = "call",
                                             !.response = response,
                                             !.confirmed = TRUE]
                  ELSE /\ cli' = [cli EXCEPT
                                    !.pc = "done", !.response = response,
                                    !.confirmed = TRUE,
                                    !.verr = "failed to remove existing "
                                                \o "directory: " \o OsError,
                                    !.err = "failed to create project: "
                                               \o "failed to remove existing "
                                               \o "directory: " \o OsError]
                       /\ UNCHANGED <<files, dirs>>
    /\ UNCHANGED <<templatesFS, inv, pc, data, todo, buf, step, running,
                   warnings, err, trace, input, output>>

\* runCreate after the validation: generator.New(config.OutputDir) and
\* gen.Generate(projectConfig)
callGenerate ==
    /\ cli.pc = "call"
    /\ cli' = [cli EXCEPT !.pc = "generating"]
    /\ inv' = << [outputDir |-> cli.config.OutputDir,
                  config |-> [ AppName     |-> cli.config.AppName,
                               ModuleName  |-> cli.config.ModuleName,
                               Domain      |-> cli.config.Domain,
                               Description |-> cli.config.Description,
                               Author      |-> cli.config.Author,
                               Features    |-> cli.config.Features ]] >>
    /\ pc' = <<"Generate">>
    /\ data' = <<ZeroData>>
    /\ todo' = << << >> >>
    /\ buf' = <<NoContent>>
    /\ step' = <<1>>
    /\ running' = <<"">>
    /\ warnings' = << << >> >>
    /\ err' = <<Nil>>
    /\ trace' = << << >> >>
    /\ UNCHANGED <<templatesFS, files, dirs, input, output>>

\* runCreate: Generate has returned
generateReturned ==
    /\ cli.pc = "generating"
    /\ pc[1] = "done"
    /\ cli' = [cli EXCEPT
                 !.pc = "done",
                 !.err = IF err[1] = Nil THEN Nil
                         ELSE "failed to generate project: " \o err[1]]
    /\ UNCHANGED <<templatesFS, inv, files, dirs, pc, data, todo, buf, step,
                   running, warnings, err, trace, input, output>>

\* the command starts: the flags are parsed, no Generate call exists yet
CliInit ==
    /\ templatesFS = CliStore
    /\ \E disk \in CliDisks :
          /\ files = disk.files
          /\ dirs = disk.dirs
          /\ \E interactive \in BOOLEAN :
                \E flags \in (IF interactive THEN {NoFlags} ELSE CliFlags) :
                   cli = [ pc |-> "runCreate", interactive |-> interactive,
                           flags |-> flags, config |-> flags,
                           response |-> "", asked |-> FALSE,
                           confirmed |-> FALSE, verr |-> Nil, err |-> Nil,
                           before |-> disk.files,
                           beforeDirs |-> disk.dirs ]
    /\ inv = << >>
    /\ pc = << >>
    /\ data = << >>
    /\ todo = << >>
    /\ buf = << >>
    /\ step = << >>
    /\ running = << >>
    /\ warnings = << >>
    /\ err = << >>
    /\ trace = << >>
    /\ input = NoInput
    /\ output = NoOutput

CliNext ==
    \/ runDirectMode
    \/ runInteractiveMode
    \/ validateConfig
    \/ confirmOverwrite
    \/ callGenerate
    \/ generateReturned
    \/ Next

CliSpec == CliInit /\ [][CliNext]_vars
(***************************************************************************)
(* The derivation functions (DeriveSpec)                                   *)
(***************************************************************************)
Built    == "TemplateData" \in output.done
Resolved == "getOutputPath" \in output.done
Asked    == "HasFeature" \in output.done

\* what the plural of each word of WordPool is expected to be
PluralOf(word) ==
    CASE word = "order"    -> "orders"
      [] word = "category" -> "categories"
      [] word = "bus"      -> "buses"
      [] word = "person"   -> "people"
      [] word = ""         -> ""
      [] word = "product"  -> "products"
      [] word = "PRODUCT"  -> "PRODUCTS"
      [] word = "day"      -> "days"
      [] word = "dish"     -> "dishes"
      [] word = "x.tmpl"   -> "x.tmpls"
      [] word = "church"   -> "churches"
      [] word = "Person"   -> "People"
      [] word = "{{.AppName}}" -> "{{.AppName}}"

\* what the title-cased form of each word of WordPool is expected to be
TitleOf(word) ==
    CASE word = "order"    -> "Order"
      [] word = "category" -> "Category"
      [] word = "bus"      -> "Bus"
      [] word = "person"   -> "Person"
      [] word = ""         -> ""
      [] word = "product"  -> "Product"
      [] word = "PRODUCT"  -> "Product"
      [] word = "day"      -> "Day"
      [] word = "dish"     -> "Dish"
      [] word = "x.tmpl"   -> "X.tmpl"
      [] word = "church"   -> "Church"
      [] word = "Person"   -> "Person"
      [] word = "{{.AppName}}" -> "{{.appname}}"

\* the lower-case form of each word of WordPool
LowerOf(word) ==
    CASE word = "PRODUCT" -> "product"
      [] word = "Person"  -> "person"
      [] word = "{{.AppName}}" -> "{{.appname}}"
      [] OTHER            -> word

\* the path each virtual path of PathPool is expected to resolve to
ExpectedPath(path, config) ==
    LET dom == config.Domain
        app == CASE config.AppName = "{{.domain}}" -> LowerOf(dom)
                 [] config.AppName = "{{.Domain}}-api" -> dom \o "-api"
                 [] OTHER -> config.AppName
    IN  CASE path = "templates/{{AppName}}/{{Domain}}.go.tmpl" ->
                 "{{AppName}}/{{Domain}}.go"
          [] path = "templates/{{.AppName}}/{{.Domain}}.go.tmpl" ->
                 app \o "/" \o dom \o ".go"
          [] path = "templates/cmd/{{.AppName}}" -> "cmd/" \o app
          [] path = "templates/{{.AppName}}/x.tmpl" -> app \o "/x"
          [] path = "{{.AppName}}.tmpl" -> app
          [] path = "templates/{{.Domain}}" -> dom
          [] path = "templates/{{.domain}}/{{.domain_plural}}.sql.tmpl" ->
                 LowerOf(dom) \o "/" \o PluralOf(dom) \o ".sql"
          [] path = "templates/{{.Unknown}}/{{ .AppName }}.txt" ->
                 "{{.Unknown}}/{{ .AppName }}.txt"
          [] path = "templates/{{.DomainTitle}}.go.tmpl" ->
                 "{{.DomainTitle}}.go"
          [] path = "templates/templates/a.tmpl.tmpl" -> "templates/a.tmpl"
          [] path = "templates/Makefile" -> "Makefile"
          [] path = "" -> ""

ShopOrder ==
    /\ input.config.AppName = "shop"
    /\ input.config.Domain = "order"

\* C11 as stated: the virtual path templates/{{AppName}}/{{Domain}}.go.tmpl,
\* with AppName "shop" and Domain "order", resolves to shop/order.go
C11_UndottedTokensResolve ==
    (Resolved /\ ShopOrder
        /\ input.path = "templates/{{AppName}}/{{Domain}}.go.tmpl")
    => output.path = "shop/order.go"

\* C11: the virtual path templates/{{.AppName}}/{{.Domain}}.go.tmpl, whose
\* tokens are spelled as getOutputPath spells them, resolves with AppName
\* "shop" and Domain "order" to shop/order.go: prefix stripped, suffix
\* stripped, both tokens substituted
C11_DottedTokensResolve ==
    (Resolved /\ ShopOrder
        /\ input.path = "templates/{{.AppName}}/{{.Domain}}.go.tmpl")
    => output.path = "shop/order.go"

C11_Witness ==
    /\ Resolved
    /\ ShopOrder
    /\ input.path = "templates/{{.AppName}}/{{.Domain}}.go.tmpl"
    /\ output.path = "shop/order.go"

\* the virtual paths whose result depends on the order of the steps
OrderPaths ==
    { "templates/{{.AppName}}/{{.Domain}}.go.tmpl",
      "templates/cmd/{{.AppName}}",
      "templates/{{.AppName}}/x.tmpl",
      "{{.AppName}}.tmpl",
      "templates/{{.Domain}}",
      "templates/{{.domain}}/{{.domain_plural}}.sql.tmpl" }

\* C12: the prefix is stripped first, then the suffix, then the tokens are
\* substituted in the order app-name, domain, lower-cased domain, plural
\* domain: what a substitution inserts (an AppName or Domain ending in
\* ".tmpl", an AppName starting with "templates/") is never stripped, and an
\* AppName that is the lower-cased-domain token is substituted in its turn
C12_StripThenSubstitute ==
    (Resolved /\ input.path \in OrderPaths)
    => /\ output.path = ExpectedPath(input.path, input.config)
       /\ (input.path = "templates/cmd/{{.AppName}}"
              /\ input.config.AppName = "lib.tmpl")
          => output.path = "cmd/lib.tmpl"
       /\ (input.path = "{{.AppName}}.tmpl"
              /\ input.config.AppName = "templates/a")
          => output.path = "templates/a"
       /\ (input.path = "templates/{{.Domain}}"
              /\ input.config.Domain = "x.tmpl")
          => output.path = "x.tmpl"

C12_Witness ==
    /\ Resolved
    /\ input.path = "templates/cmd/{{.AppName}}"
    /\ input.config.AppName = "lib.tmpl"
    /\ output.path = "cmd/lib.tmpl"

\* the virtual paths with tokens getOutputPath does not know, or with none
VerbatimPaths ==
    { "templates/{{AppName}}/{{Domain}}.go.tmpl",
      "templates/{{.Unknown}}/{{ .AppName }}.txt",
      "templates/{{.DomainTitle}}.go.tmpl",
      "templates/templates/a.tmpl.tmpl",
      "templates/Makefile",
      "" }

\* C13: path resolution never fails: whatever the path and the data, what
\* it returns is a path (a string), and a path made of literal segments and
\* of tokens other than the four known ones comes back with those segments
\* and tokens verbatim
C13_ResolutionTotalAndLenient ==
    /\ Resolved => output.path \in STRING
    /\ (Resolved /\ input.path \in VerbatimPaths)
       => output.path = ExpectedPath(input.path, input.config)

C13_Witness ==
    /\ Resolved
    /\ input.path = "templates/{{.Unknown}}/{{ .AppName }}.txt"
    /\ output.path = "{{.Unknown}}/{{ .AppName }}.txt"

RegularWords == {"category", "bus", "order", "product", "dish", "church"}

FeatureSet(features) == { features[i] : i \in 1..Len(features) }

\* C16: HasFeature(x) is true exactly when x is one of the Features of the
\* configuration, compared exactly (Auth is not auth), whatever the order of
\* the list and however often an entry is repeated
C16_HasFeatureIsMembership ==
    Asked =>
        /\ output.has <=> input.feature \in FeatureSet(input.config.Features)
        /\ FeatureSet(input.config.Features) = {"Auth", "cache"}
           => (output.has <=> input.feature \in {"Auth", "cache"})
        /\ input.config.Features = <<"auth", "auth">>
           => (output.has <=> input.feature = "auth")

C16_Witness ==
    /\ Asked
    /\ input.config.Features = <<"cache", "Auth">>
    /\ input.feature = "Auth"
    /\ output.has

(***************************************************************************)
(* The TemplateData of a Generate call (Spec)                              *)
(***************************************************************************)
\* the fields of the data of call p that are copied from the configuration
PassedThrough(p) ==
    /\ data[p].AppName     = inv[p].config.AppName
    /\ data[p].ModuleName  = inv[p].config.ModuleName
    /\ data[p].Domain      = inv[p].config.Domain
    /\ data[p].Description = inv[p].config.Description
    /\ data[p].Author      = inv[p].config.Author

\* the fields of the data of call p that are derived from Domain, but for
\* DomainPlural
DerivedFromDomain(p) ==
    /\ data[p].DomainLower       = ToLower(inv[p].config.Domain)
    /\ data[p].DomainLower       = LowerOf(inv[p].config.Domain)
    /\ data[p].DomainPluralLower = ToLower(data[p].DomainPlural)
    /\ data[p].DomainTitle       = TitleOf(inv[p].config.Domain)

TargetDir(p) == inv[p].outputDir \o "/" \o inv[p].config.AppName

\* neither directory is the other or lies inside it
Disjoint(d, e) == ~Under(d, e) /\ ~Under(e, d)

FilesUnder(d) == { f \in DOMAIN files : Under(d, f) }

\* what is on disk below the project directory of call p, relative to it:
\* the output paths with their contents
RelOutputs(p) ==
    { <<SubSeq(q, Len(TargetDir(p)) + 2, Len(q)), files[q]>> :
          q \in FilesUnder(TargetDir(p)) \cap RenderedFiles }

SoloRendered(p) ==
    { TargetDir(p) \o "/" \o ExpectedRelPath(trace[p][i].arg, inv[p].config) :
          i \in { j \in 1..Len(trace[p]) :
                     trace[p][j].op = "write" /\ trace[p][j].ok } }

SoloGoMod(p) ==
    IF Happened(p, "exit", "go mod init", TRUE)
    THEN {TargetDir(p) \o "/go.mod"} ELSE {}

\* the project directory of call p holds what call p alone has put there
OwnFilesOnly(p) ==
    /\ FilesUnder(TargetDir(p)) = SoloRendered(p) \cup SoloGoMod(p)
    /\ \A q \in SoloRendered(p) :
          files[q] = Render(LastWritten(p, q), TemplateData(inv[p].config))
    /\ \A q \in SoloGoMod(p) :
          files[q] = [kind |-> "gomod", module |-> inv[p].config.ModuleName]

\* the step call p is about to take can succeed: nothing on the disk makes
\* it fail
Unhindered(p) ==
    /\ pc[p] = "Generate" => CanMkdirAll(TargetDir(p))
    /\ pc[p] = "mkdir" => CanMkdirAll(Dir(outputPath(p)))
    /\ pc[p] = "write" => CanWriteFile(outputPath(p))
    /\ (pc[p] = "wait" /\ running[p] = "go mod init")
       => (TargetDir(p) \o "/go.mod") \notin DOMAIN files \cup dirs

\* C19 as stated: when the two calls target distinct project directories,
\* then at every moment of every interleaving each project directory holds
\* exactly the files its own call has written, with the contents that call
\* gave them, and no step of a call is made to fail by the other call
C19_DistinctPathsIndependent ==
    (Cardinality(Calls) = 2 /\ TargetDir(1) # TargetDir(2))
    => \A p \in Calls : OwnFilesOnly(p) /\ Unhindered(p)

\* C19: when the two calls target project directories neither of which is
\* the other or lies inside the other, then at every moment of every
\* interleaving each project directory holds exactly the files its own call
\* has written, with the contents that call gave them, and no step of a
\* call is made to fail by the other call
C19_DisjointPathsIndependent ==
    (Cardinality(Calls) = 2 /\ Disjoint(TargetDir(1), TargetDir(2)))
    => \A p \in Calls : OwnFilesOnly(p) /\ Unhindered(p)

\* both calls have run to the end, one application next to the other
C19_Witness ==
    /\ Cardinality(Calls) = 2
    /\ inv[1].outputDir = inv[2].outputDir
    /\ Disjoint(TargetDir(1), TargetDir(2))
    /\ \A p \in Calls :
          /\ pc[p] = "done"
          /\ err[p] = Nil
          /\ Cardinality(FilesUnder(TargetDir(p))) >= 2

SameTarget == Cardinality(Calls) = 2 /\ TargetDir(1) = TargetDir(2)

\* call p writes a file in this step
Writes(p) == pc[p] = "write" /\ pc'[p] = "walk"

C29_SequentialReplacement ==
    Resolved =>
        LET app  == input.config.AppName
            dom  == input.config.Domain
            path == input.path
        IN  /\ (path = "templates/cmd/{{.AppName}}" /\ app = "{{.Domain}}-api")
               => output.path = "cmd/" \o dom \o "-api"
            /\ (path = "templates/cmd/{{.AppName}}" /\ app = "{{.domain}}")
               => output.path = "cmd/" \o LowerOf(dom)
            /\ (path = "templates/{{.Domain}}" /\ dom = "{{.AppName}}")
               => output.path = "{{.AppName}}"
            /\ (path = "templates/{{.domain}}/{{.domain_plural}}.sql.tmpl"
                   /\ dom = "{{.AppName}}")
               => output.path = "{{.appname}}/{{.AppName}}.sql"
            /\ (path = "templates/{{.AppName}}/{{.Domain}}.go.tmpl"
                   /\ app = "{{.Domain}}-api" /\ dom = "{{.AppName}}")
               => output.path = "{{.AppName}}-api/{{.AppName}}.go"

\* an AppName holding {{.Domain}} has been inserted and its token replaced
\* by a Domain that is itself {{.AppName}}, which stays
C29_Witness ==
    /\ Resolved
    /\ input.path = "templates/{{.AppName}}/{{.Domain}}.go.tmpl"
    /\ input.config.AppName = "{{.Domain}}-api"
    /\ input.config.Domain = "{{.AppName}}"
    /\ output.path = "{{.AppName}}-api/{{.AppName}}.go"

(***************************************************************************)
(* Failures and collisions in one Generate call                            *)
(***************************************************************************)
\* C27: when the project directory cannot be created, Generate returns an
\* error at once: that failure is all the call has done, no template was
\* read or written and no command was run
C27_ProjectDirFailureReturns ==
    \A p \in Calls :
        Happened(p, "mkdirProject", projectDir(p), FALSE) =>
            /\ pc[p] = "done"
            /\ HasPrefix(err[p], "failed to create project directory: ")
            /\ trace[p] = <<Event("mkdirProject", projectDir(p), FALSE)>>
            /\ TemplateEvents(p) = << >>
            /\ CommandEvents(p) = << >>
            /\ todo[p] = << >>
            /\ running[p] = ""
            /\ \A f \in DOMAIN files : ~ Under(projectDir(p), f)

\* the project directory could not be created and Generate has returned,
\* with templates in the store it never came to
C27_Witness ==
    \E p \in Calls :
        /\ Happened(p, "mkdirProject", projectDir(p), FALSE)
        /\ pc[p] = "done"
        /\ Cardinality(templatesFS) >= 2

\* the templates f and g of the store come out at the same place
Collide(p, f, g) ==
    /\ f # g
    /\ ExpectedRelPath(f, inv[p].config) = ExpectedRelPath(g, inv[p].config)

\* the call p has written the rendering of the template f
Written(p, f) == Happened(p, "write", f, TRUE)

\* C28: when two templates resolve to the same output path and both have
\* been written, the one that comes later in store order was written last,
\* over the earlier one, without an error, and the file holds its rendering
C28_LaterTemplateOverwrites ==
    \A p \in Calls : \A f, g \in templatesFS :
        (Collide(p, f, g) /\ WalkLess(f, g) /\ Written(p, f) /\ Written(p, g))
        =>  LET q == inv[p].outputDir \o "/" \o inv[p].config.AppName \o "/"
                        \o ExpectedRelPath(g, inv[p].config)
            IN  /\ q \in DOMAIN files
                /\ files[q] = Render(g, TemplateData(inv[p].config))
                /\ files[q] # Render(f, TemplateData(inv[p].config))
                /\ LastWritten(p, q) = g
                /\ \A i \in 1..Len(trace[p]) :
                      trace[p][i].arg \in {f, g} => trace[p][i].ok

\* the templates named by {{.Domain}} and {{.domain}} were both written
\* for a lower-case domain, and Generate has returned without an error
C28_Witness ==
    \E p \in Calls :
        /\ Collide(p, "templates/internal/{{.Domain}}.go.tmpl",
                      "templates/internal/{{.domain}}.go.tmpl")
        /\ Written(p, "templates/internal/{{.Domain}}.go.tmpl")
        /\ Written(p, "templates/internal/{{.domain}}.go.tmpl")
        /\ pc[p] = "done"
        /\ err[p] = Nil

(***************************************************************************)
(* The create command (CliSpec)                                            *)
(***************************************************************************)
\* the create command has called Generate
Called == Calls # {}

\* C21: every file Generate writes lies under <outputDir>/<AppName>, for
\* every configuration the command accepts and every template path
C21_WritesUnderProjectDir ==
    \A p \in Calls : \A f \in RenderedFiles : Under(projectDir(p), f)

\* what the target of the call p was before the command ran
AbsentBefore(p) ==
    projectDir(p) \notin cli.beforeDirs \cup DOMAIN cli.before

EmptyBefore(p) ==
    /\ projectDir(p) \in cli.beforeDirs
    /\ \A q \in cli.beforeDirs \cup DOMAIN cli.before :
          Under(projectDir(p), q) => q = projectDir(p)

\* the answers that are "y" or "yes" whatever the case of their letters
YesAnswers == {"y", "Y", "yes", "Yes", "YES"}

\* the user was asked and answered yes
UserConfirmed == cli.asked /\ cli.response \in YesAnswers

\* C23: the create command calls Generate only with a validated
\* configuration (name, module and domain not empty, the output directory
\* there, the target absent, empty or confirmed by the user), and a failed
\* validation returns an error and calls nothing
C23_GenerateOnlyValidated ==
    /\ \A p \in Calls :
          /\ inv[p].config.AppName # ""
          /\ inv[p].config.ModuleName # ""
          /\ inv[p].config.Domain # ""
          /\ inv[p].outputDir \in cli.beforeDirs
          /\ AbsentBefore(p) \/ EmptyBefore(p) \/ UserConfirmed
    /\ cli.verr # Nil =>
          /\ Calls = {}
          /\ cli.pc = "done"
          /\ cli.err = "failed to create project: " \o cli.verr

\* the user has been asked about the target and has answered
Answered == cli.asked /\ cli.pc # "confirm"

\* C24: when the target directory has contents and the user's answer is
\* not "y" or "yes" in any case, validateConfig returns "operation
\* cancelled", the disk is as it was and Generate is not called
C24_CancelLeavesTarget ==
    (Answered /\ cli.response \notin YesAnswers) =>
        /\ cli.verr = "operation cancelled"
        /\ cli.pc = "done"
        /\ files = cli.before
        /\ dirs = cli.beforeDirs
        /\ Calls = {}

\* the user answered "no" (or "yeah") about a target that held files, and
\* the command has returned
C24_Witness ==
    /\ Answered
    /\ cli.response \in {"no", "yeah"}
    /\ \E f \in DOMAIN files : f # targetDir /\ Under(targetDir, f)
    /\ cli.pc = "done"

\* what there was under the target of the call p before the command ran
OldUnder(p) ==
    { q \in cli.beforeDirs \cup DOMAIN cli.before :
          Under(projectDir(p), q) /\ q # projectDir(p) }

\* C25: when the user confirms, the whole target directory is removed
\* before Generate does anything, so nothing that was in it is found in the
\* project directory during or after the run, while what lies outside it
\* stays; when the user is not asked (the target was absent or empty),
\* nothing that existed is removed: Generate only creates and overwrites
C25_RemovedBeforeGenerate ==
    \A p \in Calls :
        /\ UserConfirmed =>
              /\ \A f \in DOMAIN files :
                    Under(projectDir(p), f) => files[f].kind # "old"
              /\ trace[p] = << >> =>
                    \A q \in dirs \cup DOMAIN files : ~ Under(projectDir(p), q)
              /\ \A f \in DOMAIN cli.before \ OldUnder(p) : f \in DOMAIN files
        /\ ~ cli.asked =>
              /\ DOMAIN cli.before \subseteq DOMAIN files
              /\ cli.beforeDirs \subseteq dirs

\* the user confirmed, the target held files, and Generate has succeeded
\* and left its renderings there
C25_Witness ==
    \E p \in Calls :
        /\ UserConfirmed
        /\ OldUnder(p) \cap DOMAIN cli.before # {}
        /\ pc[p] = "done"
        /\ err[p] = Nil
        /\ \E f \in RenderedFiles : Under(projectDir(p), f)

\* the value of an option: the one given, or the default when none was
OrDefault(given, default) == IF given = "" THEN default ELSE given

\* C26: in direct mode, before the validation, every option that was not
\* given has its default (the module from the name, the domain "item",
\* the description from the domain as defaulted, the author "Developer")
\* and every option that was given is as it was given
C26_DirectModeDefaults ==
    (~ cli.interactive /\ cli.pc \notin {"none", "runCreate"}) =>
        LET given  == cli.flags
            domain == OrDefault(given.Domain, "item")
        IN  /\ cli.config.AppName = given.AppName
            /\ cli.config.ModuleName =
                   OrDefault(given.ModuleName,
                             "github.com/user/" \o given.AppName)
            /\ cli.config.Domain = domain
            /\ cli.config.Description =
                   OrDefault(given.Description,
                             "A " \o domain \o " management API")
            /\ cli.config.Author = OrDefault(given.Author, "Developer")
            /\ cli.config.OutputDir = given.OutputDir
            /\ cli.config.Features = given.Features

\* neither domain nor description was given, the module was: validation is
\* about to start with the description of the default domain
C26_Witness ==
    /\ ~ cli.interactive
    /\ cli.pc = "validate"
    /\ cli.flags.Domain = ""
    /\ cli.flags.Description = ""
    /\ cli.flags.ModuleName = "example.com/shop"
    /\ cli.config.ModuleName = "example.com/shop"
    /\ cli.config.Description = "A item management API"

(***************************************************************************)
(* The errors Generate returns                                             *)
(***************************************************************************)
\* the last thing the call did
LastEvent(p) == trace[p][Len(trace[p])]

\* the name under which PostProcess reports each fatal step
StepName(cmd) ==
    CASE cmd = "go mod init"  -> "failed to initialize go module"
      [] cmd = "go mod tidy"  -> "failed to run go mod tidy"
      [] cmd = "go fmt ./..." -> "failed to format generated code"
      [] OTHER                -> "?"

\* the error of the call says which phase failed and on what: the project
\* directory, the template, the output path or the command
NamesPhase(p) ==
    LET e   == err[p]
        ev  == LastEvent(p)
        out == inv[p].outputDir \o "/" \o inv[p].config.AppName \o "/"
                   \o ExpectedRelPath(ev.arg, inv[p].config)
    IN  CASE ev.op = "mkdirProject" ->
                 HasPrefix(e, "failed to create project directory: ")
          [] ev.op = "read" ->
                 HasPrefix(e, "failed to read template file " \o ev.arg \o ": ")
          [] ev.op = "parse" ->
                 HasPrefix(e, "failed to parse template " \o ev.arg \o ": ")
          [] ev.op = "execute" ->
                 HasPrefix(e, "failed to execute template " \o ev.arg \o ": ")
          [] ev.op = "mkdir" ->
                 HasPrefix(e, "failed to create directory for " \o out \o ": ")
          [] ev.op = "write" ->
                 HasPrefix(e, "failed to write file " \o out \o ": ")
          [] ev.op = "exit" ->
                 HasPrefix(e, "post-processing failed: "
                                 \o StepName(ev.arg) \o ": ")
          [] OTHER -> FALSE

AllDone == \A p \in Calls : pc[p] = "done"

\* an action that is enabled exactly when Next is, that is when some call
\* has not returned (Generate has a step to take at every location short
\* of its return), and whose enabling condition takes no path or word
\* computation to evaluate; a step of [][Next]_vars is a step of
\* Runnable \/ Next only when it is a step of Next
Runnable ==
    /\ ~ AllDone
    /\ pc' = [p \in Calls |-> "done"]
    /\ UNCHANGED <<templatesFS, inv, files, dirs, data, todo, buf, step,
                   running, warnings, err, trace, input, output, cli>>

\* one Generate call that is not left waiting: Generate runs in one
\* goroutine, statement after statement, and every command it starts
\* exits (cmd.Run returns), so as long as a step can be taken one is
\* taken: weak fairness of Next, WF_vars(Next)
FairSpec == Init /\ [][Next]_vars /\ WF_vars(Runnable \/ Next)

\* how the call p has ended
Succeeded(p) == err[p] = Nil

ProjectDirError(p) ==
    /\ err[p] # Nil
    /\ LastEvent(p).op = "mkdirProject"
    /\ ~ LastEvent(p).ok

TemplatePhaseError(p) ==
    /\ err[p] # Nil
    /\ IsTemplateEvent(LastEvent(p))
    /\ ~ LastEvent(p).ok

FatalStepError(p) ==
    /\ err[p] # Nil
    /\ LastEvent(p) \in { Event("exit", c, FALSE) : c \in FatalCommands }

\* how many of the conditions of the set S hold
HowMany(S) == Cardinality({ b \in S : b[2] })

\* every template is read at most once and every command started at most
\* once, and at most six commands are started
VisitedOnce(p) ==
    /\ \A i, j \in 1..Len(trace[p]) :
          (trace[p][i] = trace[p][j] /\ trace[p][i].op \in {"read", "start"})
          => i = j
    /\ Len(SelectSeq(trace[p], LAMBDA e : e.op = "start")) <= 6

\* C30 as stated: Generate terminates, having visited every template and
\* run every command at most once, and ends in exactly one of success, an
\* error of the template phase, or the error of a fatal step
C30_ThreeOutcomes ==
    /\ <>[]AllDone
    /\ [](\A p \in Calls :
            /\ VisitedOnce(p)
            /\ pc[p] = "done" =>
                  HowMany({ <<1, Succeeded(p)>>, <<2, TemplatePhaseError(p)>>,
                            <<3, FatalStepError(p)>> }) = 1)

\* C30: Generate terminates (every command it starts exits), having
\* visited every template and run every command at most once, and ends in
\* exactly one of success, the error of the project directory's creation,
\* an error of the template phase, or the error of a fatal step
C30_TerminatesInOneOutcome ==
    /\ <>[]AllDone
    /\ [](\A p \in Calls :
            /\ VisitedOnce(p)
            /\ pc[p] = "done" =>
                  HowMany({ <<1, Succeeded(p)>>, <<2, TemplatePhaseError(p)>>,
                            <<3, FatalStepError(p)>>,
                            <<4, ProjectDirError(p)>> }) = 1)

\* Generate has returned success after its six commands, two of which
\* failed as best-effort steps
C30_Witness ==
    \E p \in Calls :
        /\ pc[p] = "done"
        /\ Succeeded(p)
        /\ Len(CommandEvents(p)) = 12
        /\ Len(warnings[p]) = 2

====
